---- MODULE Spec2Model ----
(***************************************************************************)
(* Model of vulcan-check-sdk's push-mode runtime: the check state machine  *)
(* (internal/push State), the REST push transport (RestPusher and its      *)
(* sender goroutine), the signal listener (push API) and the lifecycle     *)
(* (push Check.RunAndServe / executeChecker).                              *)
(*                                                                         *)
(* Progress is a float32 in the code; the model counts it in tenths, so    *)
(* ProgressOne (10) stands for 1.0 and 12 for 1.2.                         *)
(***************************************************************************)
EXTENDS Integers, Sequences, FiniteSets, TLC

\* ------------------------------------------------------------------ bounds
MaxReports == 2      \* SetProgress calls a check body makes
MaxSignals == 2      \* termination notifications the environment sends
MaxMsgs == 4         \* UpdateState calls of the transport's producer
MaxCalls == 3        \* calls of the state machine's driver
MaxFailures == 1     \* delivery attempts the collector fails

\* ------------------------------------------------------- program constants
StatusNone == ""
StatusRunning == "RUNNING"
StatusFinished == "FINISHED"
StatusAborted == "ABORTED"
StatusFailed == "FAILED"

defaultPushMsgBufferLen == 10
ExitSignalCap == 1
ProgressOne == 10

\* Error values a check body can return (nil, context.Canceled, another
\* error) and the text of the gate's error.
ErrNil == "nil"
ErrCanceled == "context canceled"
ErrOther == "boom"
ErrNotScannable == "target is not scannable"

\* --------------------------------------------------------------- inputs
ProgressValues == {0, 1, 3, 5, ProgressOne + 2}
BodyValues == {1, 5, ProgressOne + 2}
BufferLens == {0, 1}
UnitBufferLens == {0, 1, 2}
BodyReturns == {ErrNil, ErrCanceled, ErrOther}

RECURSIVE SeqsUpTo(_, _)
SeqsUpTo(S, n) ==
  IF n = 0 THEN {<<>>}
  ELSE LET shorter == SeqsUpTo(S, n - 1)
       IN shorter \cup {Append(s, x) : s \in {t \in shorter : Len(t) = n - 1}, x \in S}

VARIABLES
  \* agent.State held by push.State
  status, progress, errText,
  \* RestPusher: the channel msgsToSend, its capacity, and the sender goroutine
  bufCap, msgsToSend, closed, senderPc, sending,
  \* the goroutine inside UpdateState's blocking send, and its message
  blocked, pendMsg,
  \* the process has panicked
  panicked,
  \* history: snapshots handed to UpdateState, delivery attempts of the
  \* sender, messages the collector accepted, failed attempts
  pushed, attempts, collected, failures,
  \* times UpdateState logged the back-pressure warning (its default branch)
  backPressure,
  \* push.Check: the RunAndServe task, the executeChecker task, the context
  mainPc, chkPc, checkerFinished, ctxCancelled,
  \* configuration and target
  allowPrivateIPs, targetScannable,
  \* the check body: the values it reports, how far it is, whether it waits
  \* for cancellation, what it returns, and what it returned
  bodyPlan, bodyIdx, bodyWaits, bodyRet, chkErr, runCalls, cleanups,
  \* push.API: the listener goroutine, ExitSignal, its aborted flag
  lsnPc, exitSignal, signalsSent, aborted, abortCalls,
  \* drivers of the unit-level specifications
  drvPc, nCalls, lastCall,
  \* calls of helpers.IsScannable made by the gate
  isScannableCalls,
  \* ProcessCheck: Run's position and the error it returns, the goroutine
  \* running readAndProcess, the child process
  prRunPc, prRet, rdPc, cmdPc,
  \* chunks the child writes in all, has written, and the scanner has read
  nOutput, written, scanned,
  \* whether the context was already cancelled when the scan of the chunk in
  \* the reader's hand completed
  inHandLate,
  \* history: the calls of ProcessOutputChunk made and the values returned
  delivered, conts,
  \* helpers: the last call made (its name, arguments and the answers of the
  \* resolvers it met, its results), and the number of calls made
  tgOp, tgIn, tgOut, tgCalls,
  \* a helpers.Target held by a caller, the resolver queries made for it, and
  \* the classification a call has computed for it, if any
  target, lookups, computedHostname, computedDomainName,
  \* a caller of Check.Shutdown other than RunAndServe: its position, and
  \* where RunAndServe was when it called
  extPc, extAt,
  \* the report of the check state: the slice ResultData.Vulnerabilities,
  \* and the arrays that slices point into
  resultData, heap,
  \* local.Check: RunAndServe's position and the goroutine running the body,
  \* the channels done and exitSignal, whether the field exitSignal is nil,
  \* the context, the notifications sent, and the local variable err
  lcPc, lcBodyPc, lcDone, lcExitSignal, lcSignalNil, lcCancelled, lcSignalsSent, lcErr,
  \* the body, and what was observed: calls of cancel, of CleanUp, of the
  \* formatter's result, and the status the process exited with
  lcBodyWaits, lcBodyRet, lcCancels, lcCleanups, lcResults, lcExit

stateVars == <<status, progress, errText>>
pusherVars == <<bufCap, msgsToSend, closed, senderPc, sending, blocked, pendMsg,
                panicked, pushed, attempts, collected, failures, backPressure>>
checkVars == <<mainPc, chkPc, checkerFinished, ctxCancelled, allowPrivateIPs,
               targetScannable, bodyPlan, bodyIdx, bodyWaits, bodyRet, chkErr,
               runCalls, cleanups>>
apiVars == <<lsnPc, exitSignal, signalsSent, aborted, abortCalls>>
drvVars == <<drvPc, nCalls, lastCall>>
gateVars == <<isScannableCalls>>
tgtVars == <<tgOp, tgIn, tgOut, tgCalls, target, lookups, computedHostname,
             computedDomainName>>
extVars == <<extPc, extAt>>
repVars == <<resultData, heap>>
locVars == <<lcPc, lcBodyPc, lcDone, lcExitSignal, lcSignalNil, lcCancelled,
             lcSignalsSent, lcErr, lcBodyWaits, lcBodyRet, lcCancels, lcCleanups,
             lcResults, lcExit>>
procVars == <<prRunPc, prRet, rdPc, cmdPc, nOutput, written, scanned, inHandLate,
              delivered, conts>>
vars == <<stateVars, pusherVars, checkVars, apiVars, drvVars, gateVars, procVars, tgtVars, extVars, repVars, locVars>>

\* A call of a driver: the operation and its argument.
Call(op, p, err) == [op |-> op, p |-> p, err |-> err]

\* ------------------------------------------------------------ snapshots
\* A slice: the array it points into (0 for a nil slice) and its length.
Slice(arr, len) == [arr |-> arr, len |-> len]
NilSlice == Slice(0, 0)

\* The elements a slice shows, read from the arrays as they are now.
Elems(s, h) == IF s.arr = 0 THEN <<>> ELSE SubSeq(h[s.arr], 1, s.len)

\* A struct copy taking the whole array in view.
SliceCopy_WholeArray(s) == IF s.arr = 0 THEN s ELSE Slice(s.arr, Len(heap[s.arr]))

\* A struct copy copies a slice field as pointer and length: the array is
\* shared with the original.
SliceCopy(s) == s

\* A pushed message is a copy of agent.State: UpdateState(p.state) passes
\* the struct by value.  The field at records what the report held when the
\* copy was made.
Snapshot(st, pr, er) ==
  [status |-> st, progress |-> pr, error |-> er, vulns |-> SliceCopy(resultData),
   at |-> Elems(resultData, heap)]
NoMsg == [status |-> StatusNone, progress |-> 0, error |-> "", vulns |-> NilSlice,
          at |-> <<>>]

\* ------------------------------------------------------------ RestPusher
\* NewRestPusher: a BufferLen of 0 selects the default capacity.
NewBufferLen(configured) ==
  IF configured = 0 THEN defaultPushMsgBufferLen ELSE configured

\* A channel taking a message whatever it holds.
ChanHasRoom_Always(q, cap) == TRUE

\* A send on the buffered channel completes at once iff the buffer has room.
ChanHasRoom(q, cap) == Len(q) < cap

\* UpdateState discarding the message when the buffer is full.
UpdateState_DropWhenFull(msg) ==
  /\ pushed' = Append(pushed, msg)
  /\ IF closed
       THEN /\ panicked' = TRUE
            /\ UNCHANGED <<msgsToSend, backPressure>>
       ELSE /\ UNCHANGED panicked
            /\ IF ChanHasRoom(msgsToSend, bufCap)
                 THEN /\ msgsToSend' = Append(msgsToSend, msg)
                      /\ UNCHANGED backPressure
                 ELSE /\ backPressure' = backPressure + 1
                      /\ UNCHANGED msgsToSend
  /\ UNCHANGED <<bufCap, closed, senderPc, sending, blocked, pendMsg, attempts,
                 collected, failures>>

\* UpdateState discarding the message when the channel is closed.
UpdateState_DropWhenClosed(msg) ==
  /\ pushed' = Append(pushed, msg)
  /\ IF closed
       THEN UNCHANGED <<panicked, msgsToSend, blocked, pendMsg, backPressure>>
       ELSE /\ UNCHANGED panicked
            /\ IF ChanHasRoom(msgsToSend, bufCap)
                 THEN /\ msgsToSend' = Append(msgsToSend, msg)
                      /\ UNCHANGED <<blocked, pendMsg, backPressure>>
                 ELSE /\ backPressure' = backPressure + 1
                      /\ blocked' = TRUE
                      /\ pendMsg' = msg
                      /\ UNCHANGED msgsToSend
  /\ UNCHANGED <<bufCap, closed, senderPc, sending, attempts, collected, failures>>

\* UpdateState: non-blocking send first; on a full buffer the default branch
\* logs the back-pressure warning and sends blocking.  A send on a closed
\* channel panics.
UpdateState(msg) ==
  /\ pushed' = Append(pushed, msg)
  /\ IF closed
       THEN /\ panicked' = TRUE
            /\ UNCHANGED <<msgsToSend, blocked, pendMsg, backPressure>>
       ELSE /\ UNCHANGED panicked
            /\ IF ChanHasRoom(msgsToSend, bufCap)
                 THEN /\ msgsToSend' = Append(msgsToSend, msg)
                      /\ UNCHANGED <<blocked, pendMsg, backPressure>>
                 ELSE /\ backPressure' = backPressure + 1
                      /\ blocked' = TRUE
                      /\ pendMsg' = msg
                      /\ UNCHANGED msgsToSend
  /\ UNCHANGED <<bufCap, closed, senderPc, sending, attempts, collected, failures>>

\* The blocking send of UpdateState's default branch completes.
BlockedSend ==
  /\ ~panicked
  /\ blocked
  /\ IF closed
       THEN /\ panicked' = TRUE
            /\ UNCHANGED <<msgsToSend, blocked, pendMsg>>
       ELSE /\ ChanHasRoom(msgsToSend, bufCap)
            /\ msgsToSend' = Append(msgsToSend, pendMsg)
            /\ blocked' = FALSE
            /\ pendMsg' = NoMsg
            /\ UNCHANGED panicked
  /\ UNCHANGED <<bufCap, closed, senderPc, sending, pushed, attempts, collected,
                 failures, backPressure>>
  /\ UNCHANGED <<stateVars, checkVars, apiVars, drvVars, gateVars, procVars, tgtVars, extVars, repVars, locVars>>

\* SenderRecv taking the newest message instead of the oldest.
SenderRecv_Newest ==
  /\ ~panicked
  /\ senderPc = "recv"
  /\ msgsToSend # <<>>
  /\ sending' = msgsToSend[Len(msgsToSend)]
  /\ msgsToSend' = SubSeq(msgsToSend, 1, Len(msgsToSend) - 1)
  /\ senderPc' = "sending"
  /\ UNCHANGED <<bufCap, closed, blocked, pendMsg, panicked, pushed, attempts,
                 collected, failures, backPressure>>
  /\ UNCHANGED <<stateVars, checkVars, apiVars, drvVars, gateVars, procVars, tgtVars, extVars, repVars, locVars>>

\* goPusher: `for msg := range c` takes the next message.
SenderRecv ==
  /\ ~panicked
  /\ senderPc = "recv"
  /\ msgsToSend # <<>>
  /\ sending' = Head(msgsToSend)
  /\ msgsToSend' = Tail(msgsToSend)
  /\ senderPc' = "sending"
  /\ UNCHANGED <<bufCap, closed, blocked, pendMsg, panicked, pushed, attempts,
                 collected, failures, backPressure>>
  /\ UNCHANGED <<stateVars, checkVars, apiVars, drvVars, gateVars, procVars, tgtVars, extVars, repVars, locVars>>

\* sendPushMsg never coming back from its delivery attempt.
sendPushMsg_Stuck(msg, ok) ==
  UNCHANGED <<attempts, collected, failures, senderPc, sending>>

\* sendPushMsg: one PATCH; on a transport error or a status other than 200 it
\* logs and calls retry(), which does nothing, and returns.
sendPushMsg(msg, ok) ==
  /\ attempts' = Append(attempts, msg)
  /\ IF ok
       THEN collected' = Append(collected, msg) /\ UNCHANGED failures
       ELSE failures' = failures + 1 /\ UNCHANGED collected
  /\ senderPc' = "recv"
  /\ sending' = NoMsg

SenderDeliver ==
  /\ ~panicked
  /\ senderPc = "sending"
  /\ \E ok \in BOOLEAN :
       /\ ~ok => failures < MaxFailures
       /\ sendPushMsg(sending, ok)
  /\ UNCHANGED <<bufCap, msgsToSend, closed, blocked, pendMsg, panicked, pushed,
                 backPressure>>
  /\ UNCHANGED <<stateVars, checkVars, apiVars, drvVars, gateVars, procVars, tgtVars, extVars, repVars, locVars>>

\* goPusher: the range loop ends when the channel is closed and drained; the
\* deferred wg.Done() releases Shutdown.
SenderExit ==
  /\ ~panicked
  /\ senderPc = "recv"
  /\ msgsToSend = <<>>
  /\ closed
  /\ senderPc' = "exited"
  /\ UNCHANGED <<bufCap, msgsToSend, closed, sending, blocked, pendMsg, panicked,
                 pushed, attempts, collected, failures, backPressure>>
  /\ UNCHANGED <<stateVars, checkVars, apiVars, drvVars, gateVars, procVars, tgtVars, extVars, repVars, locVars>>

\* RestPusher.Shutdown, first half: close(p.msgsToSend).  Closing a closed
\* channel panics.
CloseChannel ==
  /\ IF closed THEN panicked' = TRUE /\ UNCHANGED closed
               ELSE closed' = TRUE /\ UNCHANGED panicked
  /\ UNCHANGED <<bufCap, msgsToSend, senderPc, sending, blocked, pendMsg, pushed,
                 attempts, collected, failures, backPressure>>

\* Shutdown returning without waiting for the sender.
SenderFinished_NoWait == TRUE

\* RestPusher.Shutdown, second half: p.finished.Wait() returns.
SenderFinished == senderPc = "exited"

\* ---------------------------------------------------------- push.State
\* SetProgress's guard accepting a value equal to the current one.
ProgressAccepted_OrEqual(st, cur, p) == st = StatusRunning /\ p >= cur

\* SetProgress's guard.
ProgressAccepted(st, cur, p) == st = StatusRunning /\ p > cur

SetProgress(p) ==
  IF ProgressAccepted(status, progress, p)
    THEN /\ progress' = p
         /\ UNCHANGED <<status, errText>>
         /\ UpdateState(Snapshot(status, p, errText))
    ELSE UNCHANGED <<stateVars, pusherVars>>

SetStatusRunning ==
  /\ status' = StatusRunning
  /\ progress' = 0
  /\ UNCHANGED errText
  /\ UpdateState(Snapshot(StatusRunning, 0, errText))

\* SetStatusAborted leaving the progress where it is.
SetStatusAborted_KeepProgress ==
  /\ status' = StatusAborted
  /\ UNCHANGED <<progress, errText>>
  /\ UpdateState(Snapshot(StatusAborted, progress, errText))

SetStatusAborted ==
  /\ status' = StatusAborted
  /\ progress' = ProgressOne
  /\ UNCHANGED errText
  /\ UpdateState(Snapshot(StatusAborted, ProgressOne, errText))

\* SetStatusFinished leaving the progress where it is.
SetStatusFinished_KeepProgress ==
  /\ status' = StatusFinished
  /\ UNCHANGED <<progress, errText>>
  /\ UpdateState(Snapshot(StatusFinished, progress, errText))

SetStatusFinished ==
  /\ status' = StatusFinished
  /\ progress' = ProgressOne
  /\ UNCHANGED errText
  /\ UpdateState(Snapshot(StatusFinished, ProgressOne, errText))

\* SetStatusFailed not recording the error text.
SetStatusFailed_NoError(err) ==
  /\ status' = StatusFailed
  /\ progress' = ProgressOne
  /\ UNCHANGED errText
  /\ UpdateState(Snapshot(StatusFailed, ProgressOne, errText))

SetStatusFailed(err) ==
  /\ status' = StatusFailed
  /\ progress' = ProgressOne
  /\ errText' = err
  /\ UpdateState(Snapshot(StatusFailed, ProgressOne, err))

\* ------------------------------------------------------------- push.API
\* Check.Abort: cancels the check's context.
Abort ==
  /\ ctxCancelled' = TRUE
  /\ abortCalls' = abortCalls + 1

\* The environment delivers a termination notification on ExitSignal, a
\* channel with a buffer of one.
Signal ==
  /\ ~panicked
  /\ signalsSent < MaxSignals
  /\ exitSignal < ExitSignalCap
  /\ exitSignal' = exitSignal + 1
  /\ signalsSent' = signalsSent + 1
  /\ UNCHANGED <<lsnPc, aborted, abortCalls>>
  /\ UNCHANGED <<stateVars, pusherVars, checkVars, drvVars, gateVars, procVars, tgtVars, extVars, repVars, locVars>>

\* The listener calling Abort for every notification.
ListenerSignal_AlwaysAbort ==
  /\ ~panicked
  /\ lsnPc = "select"
  /\ exitSignal > 0
  /\ exitSignal' = exitSignal - 1
  /\ lsnPc' = "aborting"
  /\ UNCHANGED <<signalsSent, aborted, abortCalls>>
  /\ UNCHANGED <<stateVars, pusherVars, checkVars, drvVars, gateVars, procVars, tgtVars, extVars, repVars, locVars>>

\* API.Run's goroutine, case <-p.ExitSignal.
ListenerSignal ==
  /\ ~panicked
  /\ lsnPc = "select"
  /\ exitSignal > 0
  /\ exitSignal' = exitSignal - 1
  /\ lsnPc' = IF aborted THEN "select" ELSE "aborting"
  /\ UNCHANGED <<signalsSent, aborted, abortCalls>>
  /\ UNCHANGED <<stateVars, pusherVars, checkVars, drvVars, gateVars, procVars, tgtVars, extVars, repVars, locVars>>

\* The listener reporting the abort itself: Abort followed by the aborted
\* transition of the check state.
ListenerAbort_PushAborted ==
  /\ ~panicked
  /\ lsnPc = "aborting"
  /\ Abort
  /\ SetStatusAborted
  /\ aborted' = TRUE
  /\ lsnPc' = "select"
  /\ UNCHANGED <<exitSignal, signalsSent>>
  /\ UNCHANGED <<mainPc, chkPc, checkerFinished, allowPrivateIPs, targetScannable,
                 bodyPlan, bodyIdx, bodyWaits, bodyRet, chkErr, runCalls, cleanups>>
  /\ UNCHANGED <<drvVars, gateVars, procVars, tgtVars, extVars, repVars, locVars>>

\* API.Run's goroutine, the body of `if !aborted`.
ListenerAbort ==
  /\ ~panicked
  /\ lsnPc = "aborting"
  /\ Abort
  /\ aborted' = TRUE
  /\ lsnPc' = "select"
  /\ UNCHANGED <<exitSignal, signalsSent>>
  /\ UNCHANGED <<mainPc, chkPc, checkerFinished, allowPrivateIPs, targetScannable,
                 bodyPlan, bodyIdx, bodyWaits, bodyRet, chkErr, runCalls, cleanups>>
  /\ UNCHANGED <<stateVars, pusherVars, drvVars, gateVars, procVars, tgtVars, extVars, repVars, locVars>>

\* API.Run's goroutine after `exit = true`: the loop ends, wg.Done() runs.
ListenerExit ==
  /\ ~panicked
  /\ lsnPc = "stopping"
  /\ lsnPc' = "exited"
  /\ UNCHANGED <<exitSignal, signalsSent, aborted, abortCalls>>
  /\ UNCHANGED <<stateVars, pusherVars, checkVars, drvVars, gateVars, procVars, tgtVars, extVars, repVars, locVars>>

\* ----------------------------------------------------------- push.Check
\* The gate letting every target through.
GateOpen_Always(allow, scannable) == TRUE

\* executeChecker's gate: ptrToBool(AllowPrivateIPs) || IsScannable(target).
GateOpen(allow, scannable) == allow \/ scannable

\* The terminal transition chosen from the context instead of from err.
TerminalTransition_FromContext(err) ==
  IF ctxCancelled THEN SetStatusAborted
  ELSE IF err # ErrNil THEN SetStatusFailed(err) ELSE SetStatusFinished

\* executeChecker's choice of the terminal transition from err.
TerminalTransition(err) ==
  IF err # ErrNil
    THEN IF err = ErrCanceled THEN SetStatusAborted ELSE SetStatusFailed(err)
    ELSE SetStatusFinished

\* RunAndServe: checkerFinished.Add(1); api.Run() starts the listener.
RunAndServeStart ==
  /\ ~panicked
  /\ mainPc = "idle"
  /\ checkerFinished' = checkerFinished + 1
  /\ lsnPc' = "select"
  /\ aborted' = FALSE
  /\ mainPc' = "setRunning"
  /\ UNCHANGED <<exitSignal, signalsSent, abortCalls>>
  /\ UNCHANGED <<chkPc, ctxCancelled, allowPrivateIPs, targetScannable, bodyPlan,
                 bodyIdx, bodyWaits, bodyRet, chkErr, runCalls, cleanups>>
  /\ UNCHANGED <<stateVars, pusherVars, drvVars, gateVars, procVars, tgtVars, extVars, repVars, locVars>>

\* RunAndServe: c.checkState.SetStatusRunning().
RunAndServeSetRunning ==
  /\ ~panicked
  /\ mainPc = "setRunning"
  /\ SetStatusRunning
  /\ mainPc' = "spawn"
  /\ UNCHANGED <<chkPc, checkerFinished, ctxCancelled, allowPrivateIPs,
                 targetScannable, bodyPlan, bodyIdx, bodyWaits, bodyRet, chkErr,
                 runCalls, cleanups>>
  /\ UNCHANGED <<apiVars, drvVars, gateVars, procVars, tgtVars, extVars, repVars, locVars>>

\* RunAndServe: go c.executeChecker().
RunAndServeSpawn ==
  /\ ~panicked
  /\ ~blocked
  /\ mainPc = "spawn"
  /\ chkPc' = "gate"
  /\ mainPc' = "wait"
  /\ UNCHANGED <<checkerFinished, ctxCancelled, allowPrivateIPs, targetScannable,
                 bodyPlan, bodyIdx, bodyWaits, bodyRet, chkErr, runCalls, cleanups>>
  /\ UNCHANGED <<stateVars, pusherVars, apiVars, drvVars, gateVars, procVars, tgtVars, extVars, repVars, locVars>>

\* RunAndServe going on to Shutdown without waiting for the checker.
RunAndServeWait_NoWait ==
  /\ ~panicked
  /\ mainPc = "wait"
  /\ mainPc' = "stateShutdown"
  /\ UNCHANGED <<chkPc, checkerFinished, ctxCancelled, allowPrivateIPs,
                 targetScannable, bodyPlan, bodyIdx, bodyWaits, bodyRet, chkErr,
                 runCalls, cleanups>>
  /\ UNCHANGED <<stateVars, pusherVars, apiVars, drvVars, gateVars, procVars, tgtVars, extVars, repVars, locVars>>

\* RunAndServe: c.checkerFinished.Wait() returns.
RunAndServeWait ==
  /\ ~panicked
  /\ mainPc = "wait"
  /\ checkerFinished = 0
  /\ mainPc' = "stateShutdown"
  /\ UNCHANGED <<chkPc, checkerFinished, ctxCancelled, allowPrivateIPs,
                 targetScannable, bodyPlan, bodyIdx, bodyWaits, bodyRet, chkErr,
                 runCalls, cleanups>>
  /\ UNCHANGED <<stateVars, pusherVars, apiVars, drvVars, gateVars, procVars, tgtVars, extVars, repVars, locVars>>

\* Check.Shutdown: c.checkState.Shutdown() closes the transport's channel ...
ShutdownCloseState ==
  /\ ~panicked
  /\ mainPc = "stateShutdown"
  /\ CloseChannel
  /\ mainPc' = "waitSender"
  /\ UNCHANGED <<chkPc, checkerFinished, ctxCancelled, allowPrivateIPs,
                 targetScannable, bodyPlan, bodyIdx, bodyWaits, bodyRet, chkErr,
                 runCalls, cleanups>>
  /\ UNCHANGED <<stateVars, apiVars, drvVars, gateVars, procVars, tgtVars, extVars, repVars, locVars>>

\* ... and waits for the sender goroutine.
ShutdownWaitSender ==
  /\ ~panicked
  /\ mainPc = "waitSender"
  /\ SenderFinished
  /\ mainPc' = "apiShutdown"
  /\ UNCHANGED <<chkPc, checkerFinished, ctxCancelled, allowPrivateIPs,
                 targetScannable, bodyPlan, bodyIdx, bodyWaits, bodyRet, chkErr,
                 runCalls, cleanups>>
  /\ UNCHANGED <<stateVars, pusherVars, apiVars, drvVars, gateVars, procVars, tgtVars, extVars, repVars, locVars>>

\* Check.Shutdown: c.api.Shutdown() sends on the unbuffered stop channel; the
\* listener takes it in its select (case <-p.stop: exit = true).
ShutdownStopApi ==
  /\ ~panicked
  /\ mainPc = "apiShutdown"
  /\ lsnPc = "select"
  /\ lsnPc' = "stopping"
  /\ mainPc' = "waitListener"
  /\ UNCHANGED <<exitSignal, signalsSent, aborted, abortCalls>>
  /\ UNCHANGED <<chkPc, checkerFinished, ctxCancelled, allowPrivateIPs,
                 targetScannable, bodyPlan, bodyIdx, bodyWaits, bodyRet, chkErr,
                 runCalls, cleanups>>
  /\ UNCHANGED <<stateVars, pusherVars, drvVars, gateVars, procVars, tgtVars, extVars, repVars, locVars>>

\* API.Shutdown returning without waiting for the listener.
ShutdownWaitApi_NoWait ==
  /\ ~panicked
  /\ mainPc = "waitListener"
  /\ mainPc' = "done"
  /\ UNCHANGED <<chkPc, checkerFinished, ctxCancelled, allowPrivateIPs,
                 targetScannable, bodyPlan, bodyIdx, bodyWaits, bodyRet, chkErr,
                 runCalls, cleanups>>
  /\ UNCHANGED <<stateVars, pusherVars, apiVars, drvVars, gateVars, procVars, tgtVars, extVars, repVars, locVars>>

\* API.Shutdown: p.wg.Wait() returns; Shutdown and RunAndServe return.
ShutdownWaitApi ==
  /\ ~panicked
  /\ mainPc = "waitListener"
  /\ lsnPc = "exited"
  /\ mainPc' = "done"
  /\ UNCHANGED <<chkPc, checkerFinished, ctxCancelled, allowPrivateIPs,
                 targetScannable, bodyPlan, bodyIdx, bodyWaits, bodyRet, chkErr,
                 runCalls, cleanups>>
  /\ UNCHANGED <<stateVars, pusherVars, apiVars, drvVars, gateVars, procVars, tgtVars, extVars, repVars, locVars>>

\* executeChecker: the scannability gate.  The || evaluates IsScannable only
\* when AllowPrivateIPs is nil or false.
CheckerGate ==
  /\ ~panicked
  /\ chkPc = "gate"
  /\ isScannableCalls' =
       IF allowPrivateIPs THEN isScannableCalls ELSE isScannableCalls + 1
  /\ IF GateOpen(allowPrivateIPs, targetScannable)
       THEN /\ chkPc' = "body"
            /\ runCalls' = runCalls + 1
            /\ UNCHANGED chkErr
       ELSE /\ chkPc' = "setStatus"
            /\ chkErr' = ErrNotScannable
            /\ UNCHANGED runCalls
  /\ UNCHANGED <<mainPc, checkerFinished, ctxCancelled, allowPrivateIPs,
                 targetScannable, bodyPlan, bodyIdx, bodyWaits, bodyRet, cleanups>>
  /\ UNCHANGED <<stateVars, pusherVars, apiVars, drvVars, procVars, tgtVars, extVars, repVars, locVars>>

\* The check body reports its next progress value: state.SetProgress(p).
BodyReport ==
  /\ ~panicked
  /\ ~blocked
  /\ chkPc = "body"
  /\ bodyIdx < Len(bodyPlan)
  /\ SetProgress(bodyPlan[bodyIdx + 1])
  /\ bodyIdx' = bodyIdx + 1
  /\ UNCHANGED <<mainPc, chkPc, checkerFinished, ctxCancelled, allowPrivateIPs,
                 targetScannable, bodyPlan, bodyWaits, bodyRet, chkErr, runCalls,
                 cleanups>>
  /\ UNCHANGED <<apiVars, drvVars, gateVars, procVars, tgtVars, extVars, repVars, locVars>>

\* executeChecker going from Run's return to the terminal transition without
\* calling CleanUp.
BodyReturn_SkipCleanUp ==
  /\ ~panicked
  /\ ~blocked
  /\ chkPc = "body"
  /\ bodyIdx = Len(bodyPlan)
  /\ IF bodyWaits
       THEN ctxCancelled /\ chkErr' = ErrCanceled
       ELSE chkErr' = bodyRet
  /\ chkPc' = "setStatus"
  /\ UNCHANGED <<mainPc, checkerFinished, ctxCancelled, allowPrivateIPs,
                 targetScannable, bodyPlan, bodyIdx, bodyWaits, bodyRet, runCalls,
                 cleanups>>
  /\ UNCHANGED <<stateVars, pusherVars, apiVars, drvVars, gateVars, procVars, tgtVars, extVars, repVars, locVars>>

\* The check body returns: a body that waits for cancellation returns
\* ctx.Err() once <-ctx.Done() fires, another body returns its own value.
BodyReturn ==
  /\ ~panicked
  /\ ~blocked
  /\ chkPc = "body"
  /\ bodyIdx = Len(bodyPlan)
  /\ IF bodyWaits
       THEN ctxCancelled /\ chkErr' = ErrCanceled
       ELSE chkErr' = bodyRet
  /\ chkPc' = "cleanup"
  /\ UNCHANGED <<mainPc, checkerFinished, ctxCancelled, allowPrivateIPs,
                 targetScannable, bodyPlan, bodyIdx, bodyWaits, bodyRet, runCalls,
                 cleanups>>
  /\ UNCHANGED <<stateVars, pusherVars, apiVars, drvVars, gateVars, procVars, tgtVars, extVars, repVars, locVars>>

\* CleanUp run only after a body that returned no error.
CheckerCleanUp_OnlyOnSuccess ==
  /\ ~panicked
  /\ chkPc = "cleanup"
  /\ cleanups' = IF chkErr = ErrNil THEN cleanups + 1 ELSE cleanups
  /\ chkPc' = "setStatus"
  /\ UNCHANGED <<mainPc, checkerFinished, ctxCancelled, allowPrivateIPs,
                 targetScannable, bodyPlan, bodyIdx, bodyWaits, bodyRet, chkErr,
                 runCalls>>
  /\ UNCHANGED <<stateVars, pusherVars, apiVars, drvVars, gateVars, procVars, tgtVars, extVars, repVars, locVars>>

\* executeChecker: c.checker.CleanUp(context.Background(), ...).
CheckerCleanUp ==
  /\ ~panicked
  /\ chkPc = "cleanup"
  /\ cleanups' = cleanups + 1
  /\ chkPc' = "setStatus"
  /\ UNCHANGED <<mainPc, checkerFinished, ctxCancelled, allowPrivateIPs,
                 targetScannable, bodyPlan, bodyIdx, bodyWaits, bodyRet, chkErr,
                 runCalls>>
  /\ UNCHANGED <<stateVars, pusherVars, apiVars, drvVars, gateVars, procVars, tgtVars, extVars, repVars, locVars>>

\* executeChecker: SetEndTime, then the terminal transition chosen from err.
CheckerSetStatus ==
  /\ ~panicked
  /\ chkPc = "setStatus"
  /\ TerminalTransition(chkErr)
  /\ chkPc' = "return"
  /\ UNCHANGED <<mainPc, checkerFinished, ctxCancelled, allowPrivateIPs,
                 targetScannable, bodyPlan, bodyIdx, bodyWaits, bodyRet, chkErr,
                 runCalls, cleanups>>
  /\ UNCHANGED <<apiVars, drvVars, gateVars, procVars, tgtVars, extVars, repVars, locVars>>

\* executeChecker returns: the deferred c.checkerFinished.Done().
CheckerReturn ==
  /\ ~panicked
  /\ ~blocked
  /\ chkPc = "return"
  /\ checkerFinished' = checkerFinished - 1
  /\ chkPc' = "done"
  /\ UNCHANGED <<mainPc, ctxCancelled, allowPrivateIPs, targetScannable, bodyPlan,
                 bodyIdx, bodyWaits, bodyRet, chkErr, runCalls, cleanups>>
  /\ UNCHANGED <<stateVars, pusherVars, apiVars, drvVars, gateVars, procVars, tgtVars, extVars, repVars, locVars>>

\* ------------------------------------------------- initial conditions
\* newState / agent.State{Report: r}: status and progress are zero values.
InitState ==
  /\ status = StatusNone
  /\ progress = 0
  /\ errText = ""

\* NewRestPusher: the channel is made, with the capacity the configured
\* BufferLen (one of lens) gives, and the sender goroutine started.
InitPusher(lens) ==
  /\ bufCap \in {NewBufferLen(b) : b \in lens}
  /\ msgsToSend = <<>>
  /\ closed = FALSE
  /\ senderPc = "recv"
  /\ sending = NoMsg
  /\ blocked = FALSE
  /\ pendMsg = NoMsg
  /\ panicked = FALSE
  /\ pushed = <<>>
  /\ attempts = <<>>
  /\ collected = <<>>
  /\ failures = 0
  /\ backPressure = 0

\* newPushAPI: ExitSignal is made (and registered with signal.Notify), the
\* listener is not running yet.
InitApi ==
  /\ lsnPc = "none"
  /\ exitSignal = 0
  /\ signalsSent = 0
  /\ aborted = FALSE
  /\ abortCalls = 0

\* NewCheckWithConfig, with the check body and the target as inputs.
InitCheck ==
  /\ mainPc = "idle"
  /\ chkPc = "none"
  /\ checkerFinished = 0
  /\ ctxCancelled = FALSE
  /\ allowPrivateIPs \in BOOLEAN
  /\ targetScannable \in BOOLEAN
  /\ bodyPlan \in SeqsUpTo(BodyValues, MaxReports)
  /\ bodyIdx = 0
  /\ bodyWaits \in BOOLEAN
  /\ bodyRet \in BodyReturns
  /\ bodyWaits => bodyRet = ErrCanceled
  /\ chkErr = ErrNil
  /\ runCalls = 0
  /\ cleanups = 0
  /\ isScannableCalls = 0

\* A check that is constructed but not run, for the unit-level specifications.
InitCheckIdle ==
  /\ mainPc = "none"
  /\ chkPc = "none"
  /\ checkerFinished = 0
  /\ ctxCancelled = FALSE
  /\ allowPrivateIPs = FALSE
  /\ targetScannable = TRUE
  /\ bodyPlan = <<>>
  /\ bodyIdx = 0
  /\ bodyWaits = FALSE
  /\ bodyRet = ErrNil
  /\ chkErr = ErrNil
  /\ runCalls = 0
  /\ cleanups = 0
  /\ isScannableCalls = 0

\* A memo field of Target (*bool): nil, or a pointer to a value.
MemoUnset == "nil"
MemoTrue == "true"
MemoFalse == "false"

\* No helper has been called and nobody but RunAndServe calls Shutdown.
InitHelpersIdle ==
  /\ tgOp = "none"
  /\ tgIn = <<>>
  /\ tgOut = <<>>
  /\ tgCalls = 0
  /\ target = [value |-> "", ip |-> FALSE, hostname |-> MemoUnset, domainName |-> MemoUnset]
  /\ lookups = 0
  /\ computedHostname = MemoUnset
  /\ computedDomainName = MemoUnset

InitExtIdle ==
  /\ extPc = "none"
  /\ extAt = "none"

\* A report without vulnerabilities.
InitReportIdle ==
  /\ resultData = NilSlice
  /\ heap = <<>>

\* No local check has been constructed.
NoExit == -1

InitLocalIdle ==
  /\ lcPc = "none"
  /\ lcBodyPc = "none"
  /\ lcDone = <<>>
  /\ lcExitSignal = 0
  /\ lcSignalNil = FALSE
  /\ lcCancelled = FALSE
  /\ lcSignalsSent = 0
  /\ lcErr = ErrNil
  /\ lcBodyWaits = FALSE
  /\ lcBodyRet = ErrNil
  /\ lcCancels = 0
  /\ lcCleanups = 0
  /\ lcResults = <<>>
  /\ lcExit = NoExit

\* No ProcessCheck has been run.
InitProcessIdle ==
  /\ prRunPc = "none"
  /\ prRet = ErrNil
  /\ rdPc = "none"
  /\ cmdPc = "notStarted"
  /\ nOutput = 0
  /\ written = 0
  /\ scanned = 0
  /\ inHandLate = FALSE
  /\ delivered = <<>>
  /\ conts = <<>>

InitDrvIdle ==
  /\ drvPc = "none"
  /\ nCalls = 0
  /\ lastCall = Call("none", 0, ErrNil)

\* ------------------------------------ the push-mode lifecycle, end to end
Init ==
  /\ InitState /\ InitPusher(BufferLens) /\ InitApi /\ InitCheck /\ InitDrvIdle
  /\ InitProcessIdle
  /\ InitHelpersIdle /\ InitExtIdle /\ InitReportIdle /\ InitLocalIdle

Next ==
  \/ RunAndServeStart
  \/ RunAndServeSetRunning
  \/ RunAndServeSpawn
  \/ RunAndServeWait
  \/ ShutdownCloseState
  \/ ShutdownWaitSender
  \/ ShutdownStopApi
  \/ ShutdownWaitApi
  \/ CheckerGate
  \/ BodyReport
  \/ BodyReturn
  \/ CheckerCleanUp
  \/ CheckerSetStatus
  \/ CheckerReturn
  \/ Signal
  \/ ListenerSignal
  \/ ListenerAbort
  \/ ListenerExit
  \/ BlockedSend
  \/ SenderRecv
  \/ SenderDeliver
  \/ SenderExit

Spec == Init /\ [][Next]_vars

\* The lifecycle under the Go scheduler: a goroutine that can take a step
\* eventually takes one.  The steps are grouped by goroutine: the one running
\* RunAndServe, the one running executeChecker, the transport's sender and
\* the API's listener; a blocked channel send completes once there is room.
\* Nothing is assumed about the environment's notifications.
MainNext ==
  \/ RunAndServeStart
  \/ RunAndServeSetRunning
  \/ RunAndServeSpawn
  \/ RunAndServeWait
  \/ ShutdownCloseState
  \/ ShutdownWaitSender
  \/ ShutdownStopApi
  \/ ShutdownWaitApi

CheckerNext ==
  \/ CheckerGate
  \/ BodyReport
  \/ BodyReturn
  \/ CheckerCleanUp
  \/ CheckerSetStatus
  \/ CheckerReturn

SenderNext == SenderRecv \/ SenderDeliver \/ SenderExit

ListenerNext == ListenerSignal \/ ListenerAbort \/ ListenerExit

Fairness ==
  /\ WF_vars(MainNext)
  /\ WF_vars(CheckerNext)
  /\ WF_vars(SenderNext)
  /\ WF_vars(ListenerNext)
  /\ WF_vars(BlockedSend)

\* The check bodies of the fair specification: one that reports nothing and
\* one that reports 0.5 (each returning any of BodyReturns, or waiting for
\* cancellation).
LiveBodyPlans == {<<>>, <<5>>}

InitLive == Init /\ bodyPlan \in LiveBodyPlans

SpecLive == InitLive /\ [][Next]_vars /\ Fairness

\* --------------------------- Check.Shutdown called by another goroutine
\* Check.Shutdown is exported: besides RunAndServe, which calls it once the
\* checker has finished, a caller holding the Check can call it at any
\* time.  It runs the same two steps: checkState.Shutdown(), api.Shutdown().
ExtShutdownCall ==
  /\ ~panicked
  /\ extPc = "none"
  /\ extPc' = "stateShutdown"
  /\ extAt' = mainPc
  /\ UNCHANGED <<stateVars, pusherVars, checkVars, apiVars, drvVars, gateVars,
                 procVars, tgtVars, repVars, locVars>>

\* c.checkState.Shutdown(): close(p.msgsToSend) ...
ExtShutdownCloseState ==
  /\ ~panicked
  /\ extPc = "stateShutdown"
  /\ CloseChannel
  /\ extPc' = "waitSender"
  /\ UNCHANGED extAt
  /\ UNCHANGED <<stateVars, checkVars, apiVars, drvVars, gateVars, procVars, tgtVars, repVars, locVars>>

\* ... and p.finished.Wait().
ExtShutdownWaitSender ==
  /\ ~panicked
  /\ extPc = "waitSender"
  /\ SenderFinished
  /\ extPc' = "apiShutdown"
  /\ UNCHANGED extAt
  /\ UNCHANGED <<stateVars, pusherVars, checkVars, apiVars, drvVars, gateVars,
                 procVars, tgtVars, repVars, locVars>>

\* c.api.Shutdown(): the send on the unbuffered stop channel is taken by the
\* listener in its select ...
ExtShutdownStopApi ==
  /\ ~panicked
  /\ extPc = "apiShutdown"
  /\ lsnPc = "select"
  /\ lsnPc' = "stopping"
  /\ extPc' = "waitListener"
  /\ UNCHANGED <<exitSignal, signalsSent, aborted, abortCalls>>
  /\ UNCHANGED extAt
  /\ UNCHANGED <<stateVars, pusherVars, checkVars, drvVars, gateVars, procVars, tgtVars, repVars, locVars>>

\* ... and p.wg.Wait() returns; Shutdown returns.
ExtShutdownWaitApi ==
  /\ ~panicked
  /\ extPc = "waitListener"
  /\ lsnPc = "exited"
  /\ extPc' = "done"
  /\ UNCHANGED extAt
  /\ UNCHANGED <<stateVars, pusherVars, checkVars, apiVars, drvVars, gateVars,
                 procVars, tgtVars, repVars, locVars>>

ExtNext ==
  \/ ExtShutdownCloseState
  \/ ExtShutdownWaitSender
  \/ ExtShutdownStopApi
  \/ ExtShutdownWaitApi

NextShutdown == Next \/ ExtShutdownCall \/ ExtNext

\* The lifecycle with such a caller, every goroutine scheduled fairly; when
\* the caller calls, and whether it does, is left open.
SpecShutdown ==
  InitLive /\ [][NextShutdown]_vars /\ Fairness /\ WF_vars(ExtNext)

\* ------------------------------- the transport alone, with one producer
\* The i-th message of the producer (TestUpdateState sends RUNNING
\* snapshots); the progress field tells the messages apart.
TestMessage(i) == Snapshot(StatusRunning, i, "")

\* The producer calls p.UpdateState(m).
ProducerUpdateState ==
  /\ ~panicked
  /\ ~blocked
  /\ drvPc \in {"run", "shutdownDone"}
  /\ nCalls < MaxMsgs
  /\ UpdateState(TestMessage(nCalls + 1))
  /\ nCalls' = nCalls + 1
  /\ lastCall' = Call("UpdateState", nCalls + 1, ErrNil)
  /\ UNCHANGED drvPc
  /\ UNCHANGED <<stateVars, checkVars, apiVars, gateVars, procVars, tgtVars, extVars, repVars, locVars>>

\* The producer calls p.Shutdown() (the state machine's driver calls it
\* through State.Shutdown): close(p.msgsToSend) ...
ProducerShutdown ==
  /\ ~panicked
  /\ ~blocked
  /\ drvPc = "run"
  /\ CloseChannel
  /\ drvPc' = "waitSender"
  /\ lastCall' = Call("Shutdown", 0, ErrNil)
  /\ UNCHANGED nCalls
  /\ UNCHANGED <<stateVars, checkVars, apiVars, gateVars, procVars, tgtVars, extVars, repVars, locVars>>

\* ... and p.finished.Wait() returns.
ProducerShutdownReturn ==
  /\ ~panicked
  /\ drvPc = "waitSender"
  /\ SenderFinished
  /\ drvPc' = "shutdownDone"
  /\ UNCHANGED <<nCalls, lastCall>>
  /\ UNCHANGED <<stateVars, pusherVars, checkVars, apiVars, gateVars, procVars, tgtVars, extVars, repVars, locVars>>

InitPusherSpec ==
  /\ InitState /\ InitPusher(UnitBufferLens) /\ InitApi /\ InitCheckIdle
  /\ InitProcessIdle
  /\ InitHelpersIdle /\ InitExtIdle /\ InitReportIdle /\ InitLocalIdle
  /\ drvPc = "run"
  /\ nCalls = 0
  /\ lastCall = Call("none", 0, ErrNil)

NextPusher ==
  \/ ProducerUpdateState
  \/ ProducerShutdown
  \/ ProducerShutdownReturn
  \/ BlockedSend
  \/ SenderRecv
  \/ SenderDeliver
  \/ SenderExit

SpecPusher == InitPusherSpec /\ [][NextPusher]_vars

\* The transport under the Go scheduler: the sender goroutine takes its
\* next step when it can (each delivery attempt returns), and a blocked
\* channel send completes once the buffer has room.  Nothing is assumed of
\* the producer.
SpecPusherLive ==
  InitPusherSpec /\ [][NextPusher]_vars /\ WF_vars(SenderNext) /\ WF_vars(BlockedSend)

\* ------------------- the state machine alone, driven by arbitrary calls
DriverErrors == {ErrOther, ErrNotScannable}

DriverCall(op, p, err) ==
  /\ ~panicked
  /\ ~blocked
  /\ drvPc = "run"
  /\ nCalls < MaxCalls
  /\ nCalls' = nCalls + 1
  /\ lastCall' = Call(op, p, err)
  /\ UNCHANGED drvPc
  /\ UNCHANGED <<checkVars, apiVars, gateVars, procVars, tgtVars, extVars, repVars, locVars>>

DriverSetProgress ==
  \E p \in ProgressValues : DriverCall("SetProgress", p, ErrNil) /\ SetProgress(p)

DriverSetStatusRunning ==
  DriverCall("SetStatusRunning", 0, ErrNil) /\ SetStatusRunning

DriverSetStatusFinished ==
  DriverCall("SetStatusFinished", 0, ErrNil) /\ SetStatusFinished

DriverSetStatusAborted ==
  DriverCall("SetStatusAborted", 0, ErrNil) /\ SetStatusAborted

DriverSetStatusFailed ==
  \E e \in DriverErrors : DriverCall("SetStatusFailed", 0, e) /\ SetStatusFailed(e)

InitStateSpec ==
  /\ InitState /\ InitPusher(UnitBufferLens) /\ InitApi /\ InitCheckIdle
  /\ InitProcessIdle
  /\ InitHelpersIdle /\ InitExtIdle /\ InitReportIdle /\ InitLocalIdle
  /\ drvPc = "run"
  /\ nCalls = 0
  /\ lastCall = Call("none", 0, ErrNil)

NextState ==
  \/ DriverSetProgress
  \/ DriverSetStatusRunning
  \/ DriverSetStatusFinished
  \/ DriverSetStatusAborted
  \/ DriverSetStatusFailed
  \/ ProducerShutdown
  \/ ProducerShutdownReturn
  \/ BlockedSend
  \/ SenderRecv
  \/ SenderDeliver
  \/ SenderExit

SpecState == InitStateSpec /\ [][NextState]_vars

\* ------------------------------------- ProcessCheck: a check that runs a
\* child process and hands its standard output, chunk by chunk, to the
\* check's ProcessOutputChunk.  Chunks are numbered in output order.
MaxChunks == 3       \* chunks the child process writes to its stdout
PipeCap == 2         \* chunks the stdout pipe holds before a write blocks

ErrPipe == "pipe error"
ErrNotStarted == "exec: not started"
ErrExit == "exit status 1"

procFrame == <<stateVars, pusherVars, apiVars, drvVars, gateVars, tgtVars, extVars, repVars, locVars>>

\* Run: StdoutPipe and StderrPipe; an error of either is returned at once,
\* before the reader is started.
RunPipes ==
  /\ prRunPc = "pipes"
  /\ \E ok \in BOOLEAN :
       IF ok THEN prRunPc' = "spawn" /\ UNCHANGED prRet
             ELSE prRunPc' = "returned" /\ prRet' = ErrPipe
  /\ UNCHANGED <<rdPc, cmdPc, nOutput, written, scanned, inHandLate, delivered, conts>>
  /\ UNCHANGED <<procFrame, checkVars>>

\* Run: done := make(chan interface{}); go p.readAndProcess(childCtx, ...).
RunSpawnReader ==
  /\ prRunPc = "spawn"
  /\ rdPc' = "scan"
  /\ prRunPc' = "start"
  /\ UNCHANGED <<prRet, cmdPc, nOutput, written, scanned, inHandLate, delivered, conts>>
  /\ UNCHANGED <<procFrame, checkVars>>

\* Run: err = p.cmd.Start(); an error is logged and Run goes on.  A Start
\* that fails closes both ends of the pipes.
RunStart ==
  /\ prRunPc = "start"
  /\ \E ok \in BOOLEAN : cmdPc' = IF ok THEN "running" ELSE "startFailed"
  /\ prRunPc' = "readStderr"
  /\ UNCHANGED <<prRet, rdPc, nOutput, written, scanned, inHandLate, delivered, conts>>
  /\ UNCHANGED <<procFrame, checkVars>>

\* Run: ioutil.ReadAll(p.stderr) returns when the child has closed its
\* stderr (it has exited), or with an error on the pipe a failed Start closed.
RunReadStderr ==
  /\ prRunPc = "readStderr"
  /\ cmdPc \in {"exited", "startFailed"}
  /\ prRunPc' = "waitDone"
  /\ UNCHANGED <<prRet, rdPc, cmdPc, nOutput, written, scanned, inHandLate, delivered,
                 conts>>
  /\ UNCHANGED <<procFrame, checkVars>>

\* Run going on to cmd.Wait() without receiving from done.
RunWaitDone_NoWait ==
  /\ prRunPc = "waitDone"
  /\ prRunPc' = "cmdWait"
  /\ UNCHANGED <<prRet, rdPc, cmdPc, nOutput, written, scanned, inHandLate, delivered,
                 conts>>
  /\ UNCHANGED <<procFrame, checkVars>>

\* Run: <-done meets the reader's deferred done <- true (done is unbuffered).
RunWaitDone ==
  /\ prRunPc = "waitDone"
  /\ rdPc = "sendDone"
  /\ rdPc' = "exited"
  /\ prRunPc' = "cmdWait"
  /\ UNCHANGED <<prRet, cmdPc, nOutput, written, scanned, inHandLate, delivered, conts>>
  /\ UNCHANGED <<procFrame, checkVars>>

\* cmd.Wait() reporting no error for a command that was not started.
WaitError_Nil(cmd, exitOk) == ErrNil

\* The error of p.cmd.Wait(): the command was not started, or its exit status.
WaitError(cmd, exitOk) ==
  IF cmd = "startFailed" THEN ErrNotStarted
  ELSE IF exitOk THEN ErrNil ELSE ErrExit

\* Run: err = p.cmd.Wait(); return p.cmd.ProcessState, err.  A child killed
\* on the context's cancellation reports an error.
RunCmdWait ==
  /\ prRunPc = "cmdWait"
  /\ cmdPc \in {"exited", "startFailed"}
  /\ \E exitOk \in BOOLEAN :
       /\ (exitOk /\ cmdPc = "exited") => written = nOutput
       /\ prRet' = WaitError(cmdPc, exitOk)
  /\ prRunPc' = "returned"
  /\ UNCHANGED <<rdPc, cmdPc, nOutput, written, scanned, inHandLate, delivered, conts>>
  /\ UNCHANGED <<procFrame, checkVars>>

\* readAndProcess: scanner.Scan() returns true with the next chunk.
ReaderScan ==
  /\ rdPc = "scan"
  /\ scanned < written
  /\ scanned' = scanned + 1
  /\ inHandLate' = ctxCancelled
  /\ rdPc' = "check"
  /\ UNCHANGED <<prRunPc, prRet, cmdPc, nOutput, written, delivered, conts>>
  /\ UNCHANGED <<procFrame, checkVars>>

\* readAndProcess: scanner.Scan() returns false (end of the output, or the
\* pipe was closed); the deferred function sends on done.
ReaderScanEnd ==
  /\ rdPc = "scan"
  /\ scanned = written
  /\ cmdPc \in {"exited", "startFailed"}
  /\ rdPc' = "sendDone"
  /\ UNCHANGED <<prRunPc, prRet, cmdPc, nOutput, written, scanned, inHandLate,
                 delivered, conts>>
  /\ UNCHANGED <<procFrame, checkVars>>

\* The reader calling the processor whatever ctx.Err() is.
ReaderCtxCheck_Ignored ==
  /\ rdPc = "check"
  /\ rdPc' = "call"
  /\ delivered' = Append(delivered, [chunk |-> scanned, late |-> inHandLate])
  /\ UNCHANGED <<prRunPc, prRet, cmdPc, nOutput, written, scanned, inHandLate, conts>>
  /\ UNCHANGED <<procFrame, checkVars>>

\* readAndProcess: if ctx.Err() != nil it returns; otherwise it calls
\* p.checker.ProcessOutputChunk(payload).
ReaderCtxCheck ==
  /\ rdPc = "check"
  /\ IF ctxCancelled
       THEN rdPc' = "sendDone" /\ UNCHANGED delivered
       ELSE /\ rdPc' = "call"
            /\ delivered' = Append(delivered, [chunk |-> scanned, late |-> inHandLate])
  /\ UNCHANGED <<prRunPc, prRet, cmdPc, nOutput, written, scanned, inHandLate, conts>>
  /\ UNCHANGED <<procFrame, checkVars>>

\* The reader going on scanning whatever the processor returned.
ProcessOutputChunk_ContIgnored ==
  /\ rdPc = "call"
  /\ \E cont \in BOOLEAN : conts' = Append(conts, cont)
  /\ rdPc' = "scan"
  /\ UNCHANGED <<prRunPc, prRet, cmdPc, nOutput, written, scanned, inHandLate,
                 delivered>>
  /\ UNCHANGED <<procFrame, checkVars>>

\* readAndProcess: ProcessOutputChunk returns cont, any value a processor may
\* return; on false the reader returns.
ProcessOutputChunk ==
  /\ rdPc = "call"
  /\ \E cont \in BOOLEAN :
       /\ conts' = Append(conts, cont)
       /\ rdPc' = IF cont THEN "scan" ELSE "sendDone"
  /\ UNCHANGED <<prRunPc, prRet, cmdPc, nOutput, written, scanned, inHandLate,
                 delivered>>
  /\ UNCHANGED <<procFrame, checkVars>>

\* The child process writes its next chunk to stdout; the write blocks
\* while the pipe is full of chunks nobody has read.
CmdWrite ==
  /\ cmdPc = "running"
  /\ written < nOutput
  /\ written - scanned < PipeCap
  /\ written' = written + 1
  /\ UNCHANGED <<prRunPc, prRet, rdPc, cmdPc, nOutput, scanned, inHandLate, delivered,
                 conts>>
  /\ UNCHANGED <<procFrame, checkVars>>

\* The child process exits: after its last chunk, or at any point once the
\* context of exec.CommandContext is cancelled (it is killed).
CmdExit ==
  /\ cmdPc = "running"
  /\ written = nOutput \/ ctxCancelled
  /\ cmdPc' = "exited"
  /\ UNCHANGED <<prRunPc, prRet, rdPc, nOutput, written, scanned, inHandLate, delivered,
                 conts>>
  /\ UNCHANGED <<procFrame, checkVars>>

\* The caller of Run cancels ctx; childCtx, derived from it, is cancelled
\* with it.
CtxCancel ==
  /\ prRunPc # "none"
  /\ ~ctxCancelled
  /\ ctxCancelled' = TRUE
  /\ UNCHANGED <<mainPc, chkPc, checkerFinished, allowPrivateIPs, targetScannable,
                 bodyPlan, bodyIdx, bodyWaits, bodyRet, chkErr, runCalls, cleanups>>
  /\ UNCHANGED procVars
  /\ UNCHANGED procFrame

\* NewProcessChecker, then Run is called; the child's output is an input.
InitProcess ==
  /\ InitState /\ InitPusher({0}) /\ InitApi /\ InitCheckIdle /\ InitDrvIdle
  /\ InitHelpersIdle /\ InitExtIdle /\ InitReportIdle /\ InitLocalIdle
  /\ prRunPc = "pipes"
  /\ prRet = ErrNil
  /\ rdPc = "none"
  /\ cmdPc = "notStarted"
  /\ nOutput \in 0..MaxChunks
  /\ written = 0
  /\ scanned = 0
  /\ inHandLate = FALSE
  /\ delivered = <<>>
  /\ conts = <<>>

RunNext == RunPipes \/ RunSpawnReader \/ RunStart \/ RunReadStderr \/ RunWaitDone \/ RunCmdWait

ReaderNext == ReaderScan \/ ReaderScanEnd \/ ReaderCtxCheck \/ ProcessOutputChunk

NextProcess ==
  \/ RunPipes
  \/ RunSpawnReader
  \/ RunStart
  \/ RunReadStderr
  \/ RunWaitDone
  \/ RunCmdWait
  \/ ReaderScan
  \/ ReaderScanEnd
  \/ ReaderCtxCheck
  \/ ProcessOutputChunk
  \/ CmdWrite
  \/ CmdExit
  \/ CtxCancel

\* The goroutine running Run and the one running readAndProcess are
\* scheduled fairly; nothing is assumed of the child or of the cancellation.
SpecProcess ==
  InitProcess /\ [][NextProcess]_vars /\ WF_vars(RunNext) /\ WF_vars(ReaderNext)

\* ------------------------ the state machine with a body adding results
MaxVulns == 2        \* vulnerabilities the check body adds to the report

\* Go's append of one element: in place when the array has room after the
\* slice's length, else into a new array, which the runtime may make larger
\* than needed (spare).  Unused slots hold 0.
GoAppend(s, h, v, spare) ==
  IF s.arr # 0 /\ s.len < Len(h[s.arr])
    THEN [slice |-> Slice(s.arr, s.len + 1),
          heap |-> [h EXCEPT ![s.arr][s.len + 1] = v]]
    ELSE [slice |-> Slice(Len(h) + 1, s.len + 1),
          heap |-> Append(h, Elems(s, h) \o <<v>> \o [i \in 1..spare |-> 0])]

\* The check body calls state.AddVulnerabilities(v): the report it was given
\* is a pointer to the ResultData of the check state, and the slice
\* Vulnerabilities is appended to.  Nothing is pushed.
DriverAddVulnerabilities ==
  /\ ~panicked
  /\ ~blocked
  /\ drvPc = "run"
  /\ resultData.len < MaxVulns
  /\ \E spare \in 0..1 :
       LET a == GoAppend(resultData, heap, resultData.len + 1, spare) IN
         /\ resultData' = a.slice
         /\ heap' = a.heap
  /\ UNCHANGED <<stateVars, pusherVars, checkVars, apiVars, drvVars, gateVars,
                 procVars, tgtVars, extVars, locVars>>

\* A check state on a transport with a buffer of one message, before any
\* call.
InitSnapshot ==
  /\ InitState /\ InitPusher({1}) /\ InitApi /\ InitCheckIdle
  /\ InitProcessIdle
  /\ InitHelpersIdle /\ InitExtIdle /\ InitReportIdle /\ InitLocalIdle
  /\ drvPc = "run"
  /\ nCalls = 0
  /\ lastCall = Call("none", 0, ErrNil)

NextSnapshot ==
  \/ DriverSetStatusRunning
  \/ DriverSetProgress
  \/ DriverSetStatusFinished
  \/ DriverAddVulnerabilities
  \/ BlockedSend
  \/ SenderRecv
  \/ SenderDeliver

SpecSnapshot == InitSnapshot /\ [][NextSnapshot]_vars

\* Run on a child that may have more to write than the pipe holds, the
\* child taking its next step when it can (it writes while the pipe has
\* room and exits once it has written everything), and the goroutines of
\* Run and of the reader scheduled fairly.
CmdNext == CmdWrite \/ CmdExit

InitProcessLive ==
  /\ InitState /\ InitPusher({0}) /\ InitApi /\ InitCheckIdle /\ InitDrvIdle
  /\ InitHelpersIdle /\ InitExtIdle /\ InitReportIdle /\ InitLocalIdle
  /\ prRunPc = "pipes"
  /\ prRet = ErrNil
  /\ rdPc = "none"
  /\ cmdPc = "notStarted"
  /\ nOutput \in 0..(PipeCap + 2)
  /\ written = 0
  /\ scanned = 0
  /\ inHandLate = FALSE
  /\ delivered = <<>>
  /\ conts = <<>>

SpecProcessLive ==
  /\ InitProcessLive /\ [][NextProcess]_vars
  /\ WF_vars(RunNext) /\ WF_vars(ReaderNext) /\ WF_vars(CmdNext)

\* ------------------------------------------ the local command-line runner
\* The rest of the program while the local runner runs.
localFrame == <<stateVars, pusherVars, checkVars, apiVars, drvVars, gateVars,
                procVars, tgtVars, extVars, repVars>>

\* RunAndServe's last statements: if err != nil { os.Exit(0) }; os.Exit(1).
ExitStatus(err) == IF err # ErrNil THEN 0 ELSE 1

\* RunAndServe: go func() { c.done <- c.checker.Run(...) }().
LocalRunAndServeStart ==
  /\ lcPc = "idle"
  /\ lcBodyPc' = "run"
  /\ lcPc' = "select"
  /\ UNCHANGED <<lcDone, lcExitSignal, lcSignalNil, lcCancelled, lcSignalsSent, lcErr,
                 lcBodyWaits, lcBodyRet, lcCancels, lcCleanups, lcResults, lcExit>>
  /\ UNCHANGED localFrame

\* The check body returns (a body that waits for cancellation returns
\* ctx.Err() once the context is done) and the goroutine sends the value on
\* done, a channel with a buffer of one that receives this one value.
LocalBodyReturn ==
  /\ lcBodyPc = "run"
  /\ lcExit = NoExit
  /\ lcBodyWaits => lcCancelled
  /\ lcDone' = Append(lcDone, IF lcBodyWaits THEN ErrCanceled ELSE lcBodyRet)
  /\ lcBodyPc' = "exited"
  /\ UNCHANGED <<lcPc, lcExitSignal, lcSignalNil, lcCancelled, lcSignalsSent, lcErr,
                 lcBodyWaits, lcBodyRet, lcCancels, lcCleanups, lcResults, lcExit>>
  /\ UNCHANGED localFrame

\* The environment sends SIGINT or SIGTERM: signal.Notify delivers it to
\* the channel made by NewCheck unless its buffer of one is full.
LocalSignal ==
  /\ lcExit = NoExit
  /\ lcSignalsSent < MaxSignals
  /\ lcSignalsSent' = lcSignalsSent + 1
  /\ lcExitSignal' = IF lcExitSignal < ExitSignalCap THEN lcExitSignal + 1 ELSE lcExitSignal
  /\ UNCHANGED <<lcPc, lcBodyPc, lcDone, lcSignalNil, lcCancelled, lcErr, lcBodyWaits,
                 lcBodyRet, lcCancels, lcCleanups, lcResults, lcExit>>
  /\ UNCHANGED localFrame

\* RunAndServe's select, case <-c.exitSignal: c.cancel(); c.exitSignal = nil
\* (a receive from a nil channel is never ready).
LocalSelectSignal ==
  /\ lcPc = "select"
  /\ ~lcSignalNil
  /\ lcExitSignal > 0
  /\ lcExitSignal' = lcExitSignal - 1
  /\ lcCancelled' = TRUE
  /\ lcCancels' = lcCancels + 1
  /\ lcSignalNil' = TRUE
  /\ UNCHANGED <<lcPc, lcBodyPc, lcDone, lcSignalsSent, lcErr, lcBodyWaits, lcBodyRet,
                 lcCleanups, lcResults, lcExit>>
  /\ UNCHANGED localFrame

\* RunAndServe's select, case err = <-c.done: break LOOP.
LocalSelectDone ==
  /\ lcPc = "select"
  /\ lcDone # <<>>
  /\ lcErr' = Head(lcDone)
  /\ lcDone' = Tail(lcDone)
  /\ lcPc' = "cleanup"
  /\ UNCHANGED <<lcBodyPc, lcExitSignal, lcSignalNil, lcCancelled, lcSignalsSent,
                 lcBodyWaits, lcBodyRet, lcCancels, lcCleanups, lcResults, lcExit>>
  /\ UNCHANGED localFrame

\* RunAndServe: c.checker.CleanUp(context.Background(), ...).
LocalCleanUp ==
  /\ lcPc = "cleanup"
  /\ lcCleanups' = lcCleanups + 1
  /\ lcPc' = "result"
  /\ UNCHANGED <<lcBodyPc, lcDone, lcExitSignal, lcSignalNil, lcCancelled, lcSignalsSent,
                 lcErr, lcBodyWaits, lcBodyRet, lcCancels, lcResults, lcExit>>
  /\ UNCHANGED localFrame

\* RunAndServe: c.formatter.result(err, runtimeState.ResultData).
LocalResult ==
  /\ lcPc = "result"
  /\ lcResults' = Append(lcResults, lcErr)
  /\ lcPc' = "exit"
  /\ UNCHANGED <<lcBodyPc, lcDone, lcExitSignal, lcSignalNil, lcCancelled, lcSignalsSent,
                 lcErr, lcBodyWaits, lcBodyRet, lcCancels, lcCleanups, lcExit>>
  /\ UNCHANGED localFrame

\* RunAndServe: os.Exit; the process ends here.
LocalExit ==
  /\ lcPc = "exit"
  /\ lcExit' = ExitStatus(lcErr)
  /\ lcPc' = "exited"
  /\ UNCHANGED <<lcBodyPc, lcDone, lcExitSignal, lcSignalNil, lcCancelled, lcSignalsSent,
                 lcErr, lcBodyWaits, lcBodyRet, lcCancels, lcCleanups, lcResults>>
  /\ UNCHANGED localFrame

\* NewCheck, with the check body as input: the channels are made, the
\* notifications registered, the context created.
InitLocal ==
  /\ InitState /\ InitPusher({0}) /\ InitApi /\ InitCheckIdle /\ InitDrvIdle
  /\ InitProcessIdle /\ InitHelpersIdle /\ InitExtIdle /\ InitReportIdle
  /\ lcPc = "idle"
  /\ lcBodyPc = "none"
  /\ lcDone = <<>>
  /\ lcExitSignal = 0
  /\ lcSignalNil = FALSE
  /\ lcCancelled = FALSE
  /\ lcSignalsSent = 0
  /\ lcErr = ErrNil
  /\ lcBodyWaits \in BOOLEAN
  /\ lcBodyRet \in BodyReturns
  /\ lcBodyWaits => lcBodyRet = ErrCanceled
  /\ lcCancels = 0
  /\ lcCleanups = 0
  /\ lcResults = <<>>
  /\ lcExit = NoExit

NextLocal ==
  \/ LocalRunAndServeStart
  \/ LocalBodyReturn
  \/ LocalSignal
  \/ LocalSelectSignal
  \/ LocalSelectDone
  \/ LocalCleanUp
  \/ LocalResult
  \/ LocalExit

SpecLocal == InitLocal /\ [][NextLocal]_vars

\* ------------------------------------------------ helpers: IsScannable
\* An IP address as package net holds it: a sequence of 16-bit groups, two
\* of them for the 4-byte form and eight for the 16-byte form.
Pow2(n) == 2 ^ n

V4(a, b, c, d) == <<a * 256 + b, c * 256 + d>>

\* A network: the masked address and the prefix length (net.IPNet).
Net(ip, bits) == [ip |-> ip, bits |-> bits]

\* init: the networks net.ParseCIDR gives for reservedIPV4s.
NotScannableNetsIPV4 ==
  << Net(V4(0, 0, 0, 0), 8), Net(V4(10, 0, 0, 0), 8), Net(V4(100, 64, 0, 0), 10),
     Net(V4(127, 0, 0, 0), 8), Net(V4(169, 254, 0, 0), 16), Net(V4(172, 16, 0, 0), 12),
     Net(V4(192, 0, 0, 0), 24), Net(V4(192, 0, 2, 0), 24), Net(V4(192, 88, 99, 0), 24),
     Net(V4(192, 168, 0, 0), 16), Net(V4(198, 18, 0, 0), 15),
     Net(V4(198, 51, 100, 0), 24), Net(V4(203, 0, 113, 0), 24), Net(V4(224, 0, 0, 0), 4),
     Net(V4(240, 0, 0, 0), 4), Net(V4(255, 255, 255, 255), 32) >>

\* init: the networks for reservedIPV6s (::1/128, 64:ff9b::/96, 100::/64,
\* 2001::/32, 2001:20::/28, 2001:db8::/32, 2002::/16, fc00::/7, fe80::/10,
\* ff00::/8), the groups written in decimal.
NotScannableNetsIPV6 ==
  << Net(<<0, 0, 0, 0, 0, 0, 0, 1>>, 128), Net(<<100, 65435, 0, 0, 0, 0, 0, 0>>, 96),
     Net(<<256, 0, 0, 0, 0, 0, 0, 0>>, 64), Net(<<8193, 0, 0, 0, 0, 0, 0, 0>>, 32),
     Net(<<8193, 32, 0, 0, 0, 0, 0, 0>>, 28), Net(<<8193, 3512, 0, 0, 0, 0, 0, 0>>, 32),
     Net(<<8194, 0, 0, 0, 0, 0, 0, 0>>, 16), Net(<<64512, 0, 0, 0, 0, 0, 0, 0>>, 7),
     Net(<<65152, 0, 0, 0, 0, 0, 0, 0>>, 10), Net(<<65280, 0, 0, 0, 0, 0, 0, 0>>, 8) >>

\* Bits of group i (of 16) that a prefix of the given length covers.
BitsKept(i, bits) ==
  IF bits >= 16 * i THEN 16
  ELSE IF bits <= 16 * (i - 1) THEN 0 ELSE bits - 16 * (i - 1)

\* IP.Mask with a CIDR mask of the address's own length.
MaskIP(ip, bits) ==
  [i \in 1..Len(ip) |->
     (ip[i] \div Pow2(16 - BitsKept(i, bits))) * Pow2(16 - BitsKept(i, bits))]

\* IP.To4: the 4-byte form of an IPv4 or IPv4-mapped address, or the
\* address itself where Go gives nil.
To4(ip) ==
  IF Len(ip) = 8 /\ (\A i \in 1..5 : ip[i] = 0) /\ ip[6] = 65535
    THEN <<ip[7], ip[8]>>
    ELSE ip

\* IPNet.Contains: addresses of the other length are never contained.
Contains(n, ip) ==
  LET x == To4(ip) IN
    /\ Len(x) = Len(n.ip)
    /\ MaskIP(x, n.bits) = MaskIP(n.ip, n.bits)

\* The text of an address or network: its family, whether the text has a
\* "." (always for IPv4; for IPv6 when the last 32 bits are written as a
\* dotted quad, as in ::0.0.0.1), its groups, whether it has a "/" and the
\* number after it, and whether net can parse it at all (a zone makes it
\* unparsable).
AddrText(fam, dotted, groups, slash, bits, parsable) ==
  [fam |-> fam, dotted |-> dotted, groups |-> groups, slash |-> slash,
   bits |-> bits, parsable |-> parsable]

\* net.ParseCIDR of the text with the given prefix length: the masked
\* address, or an error.
ParseCIDR(addr, bits) ==
  IF ~addr.parsable \/ bits < 0 \/ bits > 16 * Len(addr.groups)
    THEN [err |-> TRUE, ip |-> <<>>]
    ELSE [err |-> FALSE, ip |-> MaskIP(addr.groups, bits)]

\* isAllowed: the registry and the prefix length of a bare address are
\* chosen by whether the text contains a "."; the address is allowed iff no
\* network of the registry contains the parsed (masked) address.
isAllowed(addr) ==
  LET bits == IF addr.slash THEN addr.bits ELSE (IF addr.dotted THEN 32 ELSE 128)
      nets == IF addr.dotted THEN NotScannableNetsIPV4 ELSE NotScannableNetsIPV6
      parsed == ParseCIDR(addr, bits)
  IN IF parsed.err THEN [ok |-> FALSE, err |-> TRUE]
     ELSE [ok |-> \A k \in 1..Len(nets) : ~Contains(nets[k], parsed.ip), err |-> FALSE]

\* verifyIPs rejecting a list without addresses.
verifyIPs_NonEmpty(addrs) ==
  /\ addrs # <<>>
  /\ \A i \in 1..Len(addrs) : ~isAllowed(addrs[i]).err /\ isAllowed(addrs[i]).ok

\* verifyIPs: every address must be allowed, and parse.
verifyIPs(addrs) ==
  \A i \in 1..Len(addrs) : ~isAllowed(addrs[i]).err /\ isAllowed(addrs[i]).ok

\* A target string by what the classification functions make of it: an IP
\* literal, a CIDR, a URL (with the hostname url.Hostname() gives), the
\* name of a host or domain, a container image reference, a cloud account
\* identifier (ARN).
ScanTarget(kind, value, host, addr) ==
  [kind |-> kind, value |-> value, host |-> host, addr |-> addr]

NoAddr == AddrText(0, FALSE, <<>>, FALSE, 0, FALSE)

\* Target.IsIP, Target.IsCIDR: net.ParseIP / net.ParseCIDR accept the value.
IsIP(t) == t.kind = "ip"
IsCIDR(t) == t.kind = "cidr"

\* Target.IsURL: url.ParseRequestURI accepts a URL, and an ARN too (as an
\* opaque URI, whose Hostname() is empty).
IsURL(t) == t.kind \in {"url", "arn"}

\* net.LookupHost under a resolver that maps names to address lists: a
\* host that is itself an IP literal is returned as written, without a
\* query; an error (a name the resolver does not know, an empty or
\* malformed name) leaves addrs nil.
LookupHost(name, literal, answers) ==
  IF literal.parsable THEN <<literal>>
  ELSE IF name \in DOMAIN answers THEN answers[name] ELSE <<>>

\* The host IsScannable resolves: the hostname of a URL, else the value.
Asset(t) == IF IsURL(t) THEN t.host ELSE t.value

\* IsScannable refusing a name whose lookup gives no address.
IsScannable_FailClosed(t, answers) ==
  IF IsIP(t) \/ IsCIDR(t)
    THEN isAllowed(t.addr).ok
    ELSE LET addrs == LookupHost(Asset(t), t.addr, answers)
         IN addrs # <<>> /\ verifyIPs(addrs)

\* IsScannable: an IP or a CIDR is tested directly; otherwise the value, or
\* the hostname of a URL, is resolved and every address verified.
IsScannable(t, answers) ==
  IF IsIP(t) \/ IsCIDR(t)
    THEN isAllowed(t.addr).ok
    ELSE verifyIPs(LookupHost(Asset(t), t.addr, answers))

\* ------------------------------------------------- inputs of IsScannable
\* The last address of a network.
LastOf(n) ==
  [i \in 1..Len(n.ip) |-> n.ip[i] + Pow2(16 - BitsKept(i, n.bits)) - 1]

\* The address after and the address before an address (the address itself
\* at the end of the address space).
Succ(ip) ==
  LET low == {j \in 1..Len(ip) : ip[j] < 65535} IN
    IF low = {} THEN ip
    ELSE LET j == CHOOSE x \in low : \A y \in low : y <= x IN
           [i \in 1..Len(ip) |-> IF i < j THEN ip[i] ELSE IF i = j THEN ip[j] + 1 ELSE 0]

Pred(ip) ==
  LET high == {j \in 1..Len(ip) : ip[j] > 0} IN
    IF high = {} THEN ip
    ELSE LET j == CHOOSE x \in high : \A y \in high : y <= x IN
           [i \in 1..Len(ip) |-> IF i < j THEN ip[i] ELSE IF i = j THEN ip[j] - 1 ELSE 65535]

\* The first and the last address of every network of a registry, and the
\* addresses next to them.
Boundaries(nets) ==
  UNION {{nets[k].ip, LastOf(nets[k]), Pred(nets[k].ip), Succ(LastOf(nets[k]))} :
           k \in 1..Len(nets)}

\* 1.1.1.1, 8.8.8.8; 2606:4700::1111, fec0::1, ::ffff:10.0.0.1.
PublicV4 == {V4(1, 1, 1, 1), V4(8, 8, 8, 8)}
OtherV6 ==
  {<<9734, 18176, 0, 0, 0, 0, 0, 4369>>, <<65216, 0, 0, 0, 0, 0, 0, 1>>,
   <<0, 0, 0, 0, 0, 65535, 2560, 1>>}

\* IP literals: IPv4 in dotted form, IPv6 in hexadecimal form or with a
\* dotted-quad tail.
IPLiterals ==
  {AddrText(4, TRUE, g, FALSE, 0, TRUE) : g \in Boundaries(NotScannableNetsIPV4) \cup PublicV4}
    \cup {AddrText(6, d, g, FALSE, 0, TRUE) :
            g \in Boundaries(NotScannableNetsIPV6) \cup OtherV6, d \in BOOLEAN}

\* CIDR targets: 1.1.1.1/24, 127.0.0.1/24, 8.0.0.0/5, 2001:db8::/32.
CIDRs ==
  {AddrText(4, TRUE, V4(1, 1, 1, 1), TRUE, 24, TRUE),
   AddrText(4, TRUE, V4(127, 0, 0, 1), TRUE, 24, TRUE),
   AddrText(4, TRUE, V4(8, 0, 0, 0), TRUE, 5, TRUE),
   AddrText(6, FALSE, <<8193, 3512, 0, 0, 0, 0, 0, 0>>, TRUE, 32, TRUE)}

\* Targets of the other kinds (TestTarget_IsScannable), and URLs whose
\* hostname is an IP literal.
NameTargets ==
  {ScanTarget("name", "www.example.com", "", NoAddr),
   ScanTarget("name", "localhost", "", NoAddr),
   ScanTarget("name", "test.example.com", "", NoAddr),
   ScanTarget("url", "http://www.example.com", "www.example.com", NoAddr),
   ScanTarget("url", "https://localhost", "localhost", NoAddr),
   ScanTarget("url", "http://127.0.0.1/", "127.0.0.1",
              AddrText(4, TRUE, V4(127, 0, 0, 1), FALSE, 0, TRUE)),
   ScanTarget("url", "http://[2606:4700::1111]/", "2606:4700::1111",
              AddrText(6, FALSE, <<9734, 18176, 0, 0, 0, 0, 0, 4369>>, FALSE, 0, TRUE)),
   ScanTarget("url", "http://[::0.0.0.1]/", "::0.0.0.1",
              AddrText(6, TRUE, <<0, 0, 0, 0, 0, 0, 0, 1>>, FALSE, 0, TRUE)),
   ScanTarget("image", "registry.hub.docker.com/library/alpine:latest", "", NoAddr),
   ScanTarget("arn", "arn:aws:iam::111111111111:root", "", NoAddr)}

LiteralTargets ==
  {ScanTarget("ip", "", "", a) : a \in IPLiterals}
    \cup {ScanTarget("cidr", "", "", a) : a \in CIDRs}

\* Addresses a forward lookup returns, as net formats them: 1.1.1.1,
\* 127.0.0.1, 2606:4700::1111, ::1, and fe80::1%eth0 (a zone: unparsable).
ResolvedAddrs ==
  {AddrText(4, TRUE, V4(1, 1, 1, 1), FALSE, 0, TRUE),
   AddrText(4, TRUE, V4(127, 0, 0, 1), FALSE, 0, TRUE),
   AddrText(6, FALSE, <<9734, 18176, 0, 0, 0, 0, 0, 4369>>, FALSE, 0, TRUE),
   AddrText(6, FALSE, <<0, 0, 0, 0, 0, 0, 0, 1>>, FALSE, 0, TRUE),
   AddrText(6, FALSE, <<65152, 0, 0, 0, 0, 0, 0, 1>>, FALSE, 0, FALSE)}

MaxAddrs == 2        \* addresses a forward lookup returns

\* Resolvers: the names they know, each with a non-empty address list.
ResolvableNames == {"www.example.com", "localhost"}
NoAnswers == [n \in {} |-> <<>>]
Resolvers ==
  UNION {[names -> SeqsUpTo(ResolvedAddrs, MaxAddrs) \ {<<>>}] :
           names \in SUBSET ResolvableNames}

\* The caller's frame of the helpers' specifications.
helpersFrame == <<stateVars, pusherVars, checkVars, apiVars, drvVars, gateVars,
                  procVars, extVars, repVars, locVars>>

\* IsScannable(asset) is called with the resolver the input gives.
CallIsScannable ==
  /\ tgOp = "none"
  /\ tgOp' = "IsScannable"
  /\ tgOut' = [ok |-> IsScannable(tgIn.target, tgIn.answers)]
  /\ tgCalls' = tgCalls + 1
  /\ UNCHANGED <<tgIn, target, lookups, computedHostname, computedDomainName>>
  /\ UNCHANGED helpersFrame

\* The asset and the resolver are inputs; a literal is not looked up.
InitScannable ==
  /\ InitState /\ InitPusher({0}) /\ InitApi /\ InitCheckIdle /\ InitDrvIdle
  /\ InitProcessIdle /\ InitExtIdle /\ InitReportIdle /\ InitLocalIdle
  /\ tgOp = "none"
  /\ tgIn \in {[target |-> t, answers |-> NoAnswers] : t \in LiteralTargets}
         \cup {[target |-> t, answers |-> a] : t \in NameTargets, a \in Resolvers}
  /\ tgOut = <<>>
  /\ tgCalls = 0
  /\ target = [value |-> "", ip |-> FALSE, hostname |-> MemoUnset, domainName |-> MemoUnset]
  /\ lookups = 0
  /\ computedHostname = MemoUnset
  /\ computedDomainName = MemoUnset

NextScannable == CallIsScannable

SpecScannable == InitScannable /\ [][NextScannable]_vars

\* ---------------------------------------- helpers: Target's memoized tests
MaxTargetCalls == 3  \* calls of IsHostname / IsDomainName on one Target
MaxServers == 2      \* name servers of the resolver configuration

ErrLookup == "lookup: i/o timeout"
ErrExchange == "exchange: i/o timeout"
ErrFailedToGetDNSAnswer == "failed to get a valid answer"

Memo(b) == IF b THEN MemoTrue ELSE MemoFalse
Deref(m) == m = MemoTrue

\* Outcomes of net.LookupIP: addresses, an empty list, the error "no such
\* host", another error.
LookupIPOutcomes ==
  {[err |-> "nil", n |-> 1], [err |-> "nil", n |-> 0],
   [err |-> "no such host", n |-> 0], [err |-> ErrLookup, n |-> 0]}

\* The result of a method called on a copy t of the Target: the values
\* returned, the memo field of the copy at the return, and the resolvers
\* queried.
Returned(ret, err, memo, queried) ==
  [ret |-> ret, err |-> err, memo |-> memo, queried |-> queried]

\* Target.IsHostname storing the outcome "no such host" as well.
IsHostname_MemoOnError(t, r) ==
  IF t.hostname # MemoUnset THEN Returned(Deref(t.hostname), "nil", t.hostname, <<>>)
  ELSE IF t.ip THEN Returned(FALSE, "nil", MemoFalse, <<>>)
  ELSE IF r.err # "nil"
    THEN IF r.err = "no such host"
           THEN Returned(FALSE, "nil", MemoFalse, <<1>>)
           ELSE Returned(FALSE, r.err, MemoFalse, <<1>>)
    ELSE Returned(r.n > 0, "nil", Memo(r.n > 0), <<1>>)

\* Target.IsHostname on the copy t, net.LookupIP answering r.
IsHostname(t, r) ==
  IF t.hostname # MemoUnset THEN Returned(Deref(t.hostname), "nil", t.hostname, <<>>)
  ELSE IF t.ip THEN Returned(FALSE, "nil", MemoFalse, <<>>)
  ELSE IF r.err # "nil"
    THEN IF r.err = "no such host"
           THEN Returned(FALSE, "nil", MemoUnset, <<1>>)
           ELSE Returned(FALSE, r.err, MemoUnset, <<1>>)
    ELSE Returned(r.n > 0, "nil", Memo(r.n > 0), <<1>>)

\* A DNS exchange: an error, or a message with a response code and the
\* resource records of its answer section.
RcodeSuccess == "NOERROR"
Msg(rcode, answer) == [err |-> "nil", rcode |-> rcode, answer |-> answer]
RR(name, rrtype) == [name |-> name, rrtype |-> rrtype]
NilMsg == [err |-> "nil", rcode |-> "", answer |-> {}]

\* Exchanges for the question "example.com. SOA": an error; the SOA of the
\* name; the SOA of another owner beside an A record of the name; no such
\* domain; a server failure.
Exchanges ==
  {[err |-> ErrExchange, rcode |-> "", answer |-> {}],
   Msg(RcodeSuccess, {RR("example.com.", "SOA")}),
   Msg(RcodeSuccess, {RR("com.", "SOA"), RR("example.com.", "A"), RR("example.com", "SOA")}),
   Msg("NXDOMAIN", {}),
   Msg("SERVFAIL", {})}

\* What each configured server, in the order of dnsConf.Servers, would
\* answer.
ServerLists == SeqsUpTo(Exchanges, MaxServers)

\* soaHeaderForName: an answer record of type SOA owned by the name.
soaHeaderForName(r, name) ==
  \E a \in r.answer : a.name = name /\ a.rrtype = "SOA"

\* The loop never leaving early.
Stops_Never(r) == FALSE

\* hasSOARecord: the loop is left at a response with the success code.
Stops(r) == r.rcode = RcodeSuccess

\* hasSOARecord: the loop over dnsConf.Servers from server i on, r being
\* the message held and queried the servers asked so far.
RECURSIVE ExchangeLoop(_, _, _, _)
ExchangeLoop(servers, i, r, queried) ==
  IF i > Len(servers) THEN [err |-> "nil", r |-> r, queried |-> queried]
  ELSE IF servers[i].err # "nil"
    THEN [err |-> servers[i].err, r |-> NilMsg, queried |-> Append(queried, i)]
  ELSE IF Stops(servers[i])
    THEN [err |-> "nil", r |-> servers[i], queried |-> Append(queried, i)]
  ELSE ExchangeLoop(servers, i + 1, servers[i], Append(queried, i))

\* hasSOARecord, the resolver configuration being readable.
hasSOARecord(address, servers) ==
  LET name == address \o "."
      l == ExchangeLoop(servers, 1, NilMsg, <<>>)
  IN IF l.err # "nil" THEN [ret |-> FALSE, err |-> l.err, queried |-> l.queried]
     ELSE IF l.r = NilMsg
       THEN [ret |-> FALSE, err |-> ErrFailedToGetDNSAnswer, queried |-> l.queried]
     ELSE [ret |-> soaHeaderForName(l.r, name), err |-> "nil", queried |-> l.queried]

\* Target.IsDomainName on the copy t, the servers answering as listed.
IsDomainName(t, servers) ==
  IF t.domainName # MemoUnset
    THEN Returned(Deref(t.domainName), "nil", t.domainName, <<>>)
  ELSE IF t.ip THEN Returned(FALSE, "nil", MemoUnset, <<>>)
  ELSE LET s == hasSOARecord(t.value, servers) IN
    IF s.err # "nil" THEN Returned(FALSE, s.err, MemoUnset, s.queried)
    ELSE Returned(s.ret, "nil", Memo(s.ret), s.queried)

\* t.IsHostname(): the method has a value receiver, so it works on a copy
\* of the caller's Target and the caller's memo field stays as it was.
CallIsHostname ==
  /\ tgCalls < MaxTargetCalls
  /\ \E r \in LookupIPOutcomes :
       LET res == IsHostname(target, r) IN
         /\ tgOp' = "IsHostname"
         /\ tgIn' = [target |-> target, lookup |-> r]
         /\ tgOut' = res
         /\ lookups' = lookups + Len(res.queried)
         /\ computedHostname' =
              IF target.hostname = MemoUnset /\ res.memo # MemoUnset
                THEN res.memo ELSE computedHostname
  /\ tgCalls' = tgCalls + 1
  /\ target' = target
  /\ UNCHANGED computedDomainName
  /\ UNCHANGED helpersFrame

\* t.IsDomainName(): a value receiver as well.
CallIsDomainName ==
  /\ tgCalls < MaxTargetCalls
  /\ \E servers \in ServerLists :
       LET res == IsDomainName(target, servers) IN
         /\ tgOp' = "IsDomainName"
         /\ tgIn' = [target |-> target, servers |-> servers]
         /\ tgOut' = res
         /\ lookups' = lookups + Len(res.queried)
         /\ computedDomainName' =
              IF target.domainName = MemoUnset /\ res.memo # MemoUnset
                THEN res.memo ELSE computedDomainName
  /\ tgCalls' = tgCalls + 1
  /\ target' = target
  /\ UNCHANGED computedHostname
  /\ UNCHANGED helpersFrame

\* A Target of a host name or of an IP, built by a caller (memo fields
\* unset) or inside the package with a memo field set.
InitTarget ==
  /\ InitState /\ InitPusher({0}) /\ InitApi /\ InitCheckIdle /\ InitDrvIdle
  /\ InitProcessIdle /\ InitExtIdle /\ InitReportIdle /\ InitLocalIdle
  /\ tgOp = "none"
  /\ tgIn = <<>>
  /\ tgOut = <<>>
  /\ tgCalls = 0
  /\ target \in {[value |-> IF ip THEN "192.0.2.1" ELSE "example.com", ip |-> ip,
                  hostname |-> h, domainName |-> d] :
                   ip \in BOOLEAN, h \in {MemoUnset, MemoTrue, MemoFalse},
                   d \in {MemoUnset, MemoTrue, MemoFalse}}
  /\ lookups = 0
  /\ computedHostname = MemoUnset
  /\ computedDomainName = MemoUnset

NextTarget == CallIsHostname \/ CallIsDomainName

SpecTarget == InitTarget /\ [][NextTarget]_vars

\* ====================================================================
\* Properties
\* ====================================================================
IsPrefix(s, t) == Len(s) <= Len(t) /\ SubSeq(t, 1, Len(s)) = s

Last(s) == s[Len(s)]

TerminalStatuses == {StatusFinished, StatusAborted, StatusFailed}

\* Occurrences of message m in sequence s.
Count(s, m) == Cardinality({i \in 1..Len(s) : s[i] = m})

\* The check body ran and is of the HappyPath shape: k strictly increasing
\* values, each greater than 0, then a nil return.
HappyBody ==
  /\ GateOpen(allowPrivateIPs, targetScannable)
  /\ ~bodyWaits
  /\ bodyRet = ErrNil
  /\ \A i \in 1..Len(bodyPlan) : bodyPlan[i] > 0
  /\ \A i \in 1..Len(bodyPlan) : \A j \in 1..Len(bodyPlan) :
       i < j => bodyPlan[i] < bodyPlan[j]

HappySnapshots ==
  <<Snapshot(StatusRunning, 0, "")>>
    \o [i \in 1..Len(bodyPlan) |-> Snapshot(StatusRunning, bodyPlan[i], "")]
    \o <<Snapshot(StatusFinished, ProgressOne, "")>>

\* C1: in push mode, with a collector that accepts every delivery, a body
\* that reports k strictly increasing values greater than 0 and returns nil
\* makes the collector observe, in order, {running, 0}, one {running, p_i}
\* per report and {finished, 1}: never anything else on the way, and exactly
\* these k+2 once RunAndServe has returned.
C1_HappyPath ==
  (HappyBody /\ failures = 0) =>
    /\ IsPrefix(collected, HappySnapshots)
    /\ mainPc = "done" => collected = HappySnapshots

\* The HappyPath test: one report of 0.1, three snapshots.
C1_Witness ==
  /\ mainPc = "done"
  /\ HappyBody
  /\ bodyPlan = <<1>>
  /\ collected = <<Snapshot(StatusRunning, 0, ""), Snapshot(StatusRunning, 1, ""),
                   Snapshot(StatusFinished, ProgressOne, "")>>

\* The check body ran and only waits for cancellation.
AbortBody ==
  /\ GateOpen(allowPrivateIPs, targetScannable)
  /\ bodyWaits
  /\ bodyPlan = <<>>

AbortSnapshots ==
  <<Snapshot(StatusRunning, 0, ""), Snapshot(StatusAborted, ProgressOne, "")>>

\* C2: in push mode, with a collector that accepts every delivery, a body
\* that blocks until cancellation and returns the cancellation error, and a
\* termination signal delivered at any point, make the collector observe
\* exactly {running, 0} then {aborted, 1}, and CleanUp has run exactly once
\* when RunAndServe returns.
C2_Abort ==
  (AbortBody /\ failures = 0) =>
    /\ IsPrefix(collected, AbortSnapshots)
    /\ cleanups <= 1
    /\ mainPc = "done" => (collected = AbortSnapshots /\ cleanups = 1)

\* RunAndServe has returned after an abort.
C2_Witness ==
  /\ mainPc = "done"
  /\ AbortBody
  /\ abortCalls = 1
  /\ collected = AbortSnapshots
  /\ cleanups = 1

\* C3: a call SetProgress(p) sets progress to p and pushes exactly one
\* snapshot (running, p) if the status is running and p is strictly greater
\* than the current progress; otherwise it changes nothing of the state and
\* pushes nothing.
C3_SetProgressGuard ==
  [][\A p \in ProgressValues :
       (nCalls' = nCalls + 1 /\ lastCall'.op = "SetProgress" /\ lastCall'.p = p) =>
         IF status = StatusRunning /\ p > progress
           THEN /\ progress' = p
                /\ status' = StatusRunning
                /\ errText' = errText
                /\ pushed' = Append(pushed, Snapshot(StatusRunning, p, errText))
           ELSE UNCHANGED <<status, progress, errText, pushed, msgsToSend, blocked,
                            pendMsg>>]_vars

\* SetProgress(0.5) then SetProgress(0.3) while running: progress is 0.5 and
\* only the start and the first report were pushed.
C3_Witness ==
  /\ lastCall.op = "SetProgress"
  /\ lastCall.p = 3
  /\ status = StatusRunning
  /\ progress = 5
  /\ pushed = <<Snapshot(StatusRunning, 0, ""), Snapshot(StatusRunning, 5, "")>>

C5_SubmissionOrder ==
  /\ \A i \in 1..Len(attempts) : attempts[i] = TestMessage(i)
  /\ (drvPc = "shutdownDone" /\ ~panicked) => attempts = pushed

\* All MaxMsgs messages were delivered in order, and both insert paths were
\* taken on the way.
C5_Witness ==
  /\ drvPc = "shutdownDone"
  /\ Len(attempts) = MaxMsgs
  /\ attempts = pushed
  /\ backPressure > 0
  /\ backPressure < MaxMsgs

\* Messages whose UpdateState call was made before Shutdown.
SubmittedBeforeShutdown ==
  IF panicked THEN SubSeq(pushed, 1, Len(pushed) - 1) ELSE pushed

\* C6: every message passed to UpdateState before Shutdown is, at any
\* time, in exactly one place (pending in a blocked UpdateState, in the
\* buffer, with the sender, or attempted), is attempted at most once, and
\* has been attempted exactly once when Shutdown has returned.
C6_ExactlyOneAttempt ==
  \A i \in 1..Len(SubmittedBeforeShutdown) :
    LET m == SubmittedBeforeShutdown[i] IN
      /\ Count(attempts, m) <= 1
      /\ Count(attempts, m) + Count(msgsToSend, m)
           + (IF senderPc = "sending" /\ sending = m THEN 1 ELSE 0)
           + (IF blocked /\ pendMsg = m THEN 1 ELSE 0) = 1
      /\ drvPc = "shutdownDone" => Count(attempts, m) = 1

\* A producer that found the buffer full has had its message attempted,
\* and a failed attempt was not repeated.
C6_Witness ==
  /\ drvPc = "shutdownDone"
  /\ backPressure > 0
  /\ failures > 0
  /\ Len(attempts) = Len(pushed)
  /\ Len(pushed) >= 2

\* C7: when Shutdown has returned the sender has exited, the buffer is
\* empty and every message queued before the call has been attempted; and
\* no attempt is made after Shutdown has returned.
C7_ShutdownDrains ==
  [][/\ drvPc' = "shutdownDone" =>
          /\ senderPc' = "exited"
          /\ msgsToSend' = <<>>
          /\ attempts' = SubmittedBeforeShutdown'
     /\ drvPc = "shutdownDone" => attempts' = attempts]_vars

\* Shutdown has returned with messages that were still queued when it was
\* called.
C7_Witness ==
  /\ drvPc = "shutdownDone"
  /\ senderPc = "exited"
  /\ Len(attempts) >= 2

\* C8: once a delivery attempt has failed, no further snapshot is handed
\* to the collector and the check does not go on.
C8_FailureIsFatal ==
  [][failures > 0 =>
       (attempts' = attempts /\ pushed' = pushed /\ chkPc' = chkPc)]_vars

\* The status the lifecycle must end in for a value returned by the body.
StatusFor(ret) ==
  CASE ret = ErrNil -> StatusFinished
    [] ret = ErrCanceled -> StatusAborted
    [] OTHER -> StatusFailed

\* C9: once the body has returned and executeChecker has made its terminal
\* transition, the status is finished for a nil return, aborted for
\* context.Canceled and failed (with the error text) for another error,
\* whether or not the context was cancelled by a signal.
C9_StatusFromReturn ==
  (runCalls = 1 /\ chkPc \in {"return", "done"}) =>
    /\ chkErr = (IF bodyWaits THEN ErrCanceled ELSE bodyRet)
    /\ status = StatusFor(chkErr)
    /\ Last(pushed).status = status
    /\ status = StatusFailed => errText = chkErr

\* A signal was handled, the body ignored it and returned nil: finished.
C9_Witness ==
  /\ chkPc = "done"
  /\ ctxCancelled
  /\ runCalls = 1
  /\ chkErr = ErrNil
  /\ status = StatusFinished

\* A terminal snapshot has been handed to the transport.
TerminalPushed == \E i \in 1..Len(pushed) : pushed[i].status \in TerminalStatuses

\* C10: RunAndServe has not returned unless executeChecker has returned
\* and its terminal snapshot has been pushed and attempted; and until the
\* body has returned, cancelled context or not, RunAndServe is still
\* waiting and no terminal snapshot has been pushed.
C10_BodyCompletionAuthoritative ==
  /\ mainPc = "done" =>
       /\ chkPc = "done"
       /\ TerminalPushed
       /\ attempts = pushed
  /\ chkPc \in {"gate", "body", "cleanup"} =>
       /\ mainPc = "wait"
       /\ ~TerminalPushed
       /\ status = StatusRunning

\* The signal was handled while a body that ignores cancellation runs:
\* RunAndServe still waits.
C10_Witness ==
  /\ ctxCancelled
  /\ abortCalls = 1
  /\ chkPc = "body"
  /\ ~bodyWaits
  /\ mainPc = "wait"

\* Notifications the listener has taken from ExitSignal.
NotificationsTaken == signalsSent - exitSignal

\* C11: however many termination notifications arrive on ExitSignal
\* between Run and Shutdown, the listener calls Abort at most once: not at
\* all while it has taken no notification, and exactly once when it has
\* taken at least one and is not inside the call.
C11_AbortOnce ==
  /\ abortCalls <= 1
  /\ NotificationsTaken = 0 => abortCalls = 0
  /\ (NotificationsTaken > 0 /\ lsnPc # "aborting") => abortCalls = 1

\* Two notifications were taken while the check ran; the second one was
\* ignored.
C11_Witness ==
  /\ NotificationsTaken = 2
  /\ lsnPc = "select"
  /\ aborted
  /\ abortCalls = 1
  /\ ctxCancelled

\* C12: API.Shutdown, called after API.Run, returns eventually; when it has
\* returned the listener goroutine has exited, and no Abort call is made
\* after that; whether a notification is pending, being handled or absent
\* when Shutdown is called.
C12_ShutdownStopsListener ==
  /\ [](mainPc = "done" => lsnPc = "exited")
  /\ [][mainPc = "done" => abortCalls' = abortCalls]_vars
  /\ (mainPc = "apiShutdown" ~> mainPc = "done")

\* Shutdown has returned after the listener handled one notification, and
\* another one is left pending in ExitSignal.
C12_Witness ==
  /\ mainPc = "done"
  /\ lsnPc = "exited"
  /\ abortCalls = 1
  /\ exitSignal = 1

\* The configuration forbids private IPs and the target is not scannable.
GateClosed == ~allowPrivateIPs /\ ~targetScannable

GateSnapshots ==
  <<Snapshot(StatusRunning, 0, ""),
    Snapshot(StatusFailed, ProgressOne, ErrNotScannable)>>

\* C13: when private IPs are not allowed and IsScannable(target) is false,
\* the body's Run and CleanUp are never invoked and the lifecycle still
\* terminates, having pushed the running snapshot and then one failed
\* snapshot whose error is "target is not scannable"; when AllowPrivateIPs
\* is true, Run is invoked and IsScannable is never called.
C13_ScannabilityGate ==
  /\ [](GateClosed => (runCalls = 0 /\ cleanups = 0 /\ IsPrefix(pushed, GateSnapshots)))
  /\ []((GateClosed /\ mainPc = "done") => (pushed = GateSnapshots /\ attempts = pushed))
  /\ (GateClosed ~> mainPc = "done")
  /\ [](allowPrivateIPs => isScannableCalls = 0)
  /\ []((allowPrivateIPs /\ chkPc \notin {"none", "gate"}) => runCalls = 1)

\* The lifecycle has ended for a target that is not scannable.
C13_Witness ==
  /\ GateClosed
  /\ mainPc = "done"
  /\ isScannableCalls = 1
  /\ runCalls = 0
  /\ status = StatusFailed
  /\ errText = ErrNotScannable
  /\ collected = GateSnapshots

\* C14: when the body's Run is invoked, CleanUp is invoked exactly once,
\* after Run has returned and before the terminal snapshot is pushed,
\* whatever Run returned (nil, another error, the cancellation error).
C14_CleanUpOnce ==
  /\ runCalls <= 1
  /\ chkPc \in {"none", "gate", "body", "cleanup"} =>
       (cleanups = 0 /\ ~TerminalPushed)
  /\ chkPc \in {"setStatus", "return", "done"} => cleanups = runCalls
  /\ TerminalPushed => cleanups = runCalls

\* Run returned an ordinary error: CleanUp has run once and the failed
\* snapshot was pushed after it.
C14_Witness ==
  /\ chkPc = "done"
  /\ runCalls = 1
  /\ cleanups = 1
  /\ chkErr = ErrOther
  /\ Last(pushed).status = StatusFailed

\* C15: the status transitions respect their preconditions for any sequence
\* of calls: running is entered only from none, a terminal status only from
\* running, and a terminal status is never replaced by another status.
C15_TransitionPreconditions ==
  [][/\ status \in TerminalStatuses => status' = status
     /\ (status' = StatusRunning /\ status # StatusRunning) => status = StatusNone
     /\ (status' \in TerminalStatuses /\ status' # status) => status = StatusRunning]_vars

\* C16: in every reachable state and in every pushed snapshot the progress
\* lies in [0, 1], and while the status is running it never decreases,
\* whatever values the check body passes to SetProgress.
C16_ProgressInUnitInterval ==
  /\ [](0 <= progress /\ progress <= ProgressOne)
  /\ [](\A i \in 1..Len(pushed) :
          0 <= pushed[i].progress /\ pushed[i].progress <= ProgressOne)
  /\ [][(status = StatusRunning /\ status' = StatusRunning) =>
          progress' >= progress]_vars

\* C17: ProcessCheck.Run returns only after its output-reading task has
\* stopped: when Run has returned the reader is not running (it has exited,
\* or was never started), and no call of the chunk processor starts or
\* returns after that.
C17_RunAfterReader ==
  /\ [](prRunPc = "returned" => rdPc \in {"none", "exited"})
  /\ [][prRunPc = "returned" => (delivered' = delivered /\ conts' = conts)]_vars

\* Run has returned the status of a child whose whole output was processed.
C17_Witness ==
  /\ prRunPc = "returned"
  /\ prRet = ErrNil
  /\ rdPc = "exited"
  /\ Len(delivered) = MaxChunks
  /\ Len(conts) = MaxChunks

\* C18: the chunks are delivered to the processor in output order (the
\* i-th call gets the i-th chunk), and once the processor has returned false
\* it is never invoked again, whatever the child writes afterwards: only the
\* last call made can have returned false, and then the reader has stopped.
C18_EarlyStop ==
  /\ \A i \in 1..Len(delivered) : delivered[i].chunk = i
  /\ \A i \in 1..(Len(conts) - 1) : conts[i]
  /\ (conts # <<>> /\ ~Last(conts)) =>
       (Len(delivered) = Len(conts) /\ rdPc \in {"sendDone", "exited"})

\* The processor returned false for the first chunk; the child wrote two
\* more, which were never delivered.
C18_Witness ==
  /\ conts = <<FALSE>>
  /\ Len(delivered) = 1
  /\ written = MaxChunks
  /\ prRunPc = "returned"

\* C19: no chunk whose scan completed after the cancellation of the
\* context is delivered to the processor; a reader holding a chunk when the
\* context is cancelled returns without delivering it; and a processor call
\* in progress ends only by returning its value.
C19_CooperativeCancel ==
  /\ [](\A i \in 1..Len(delivered) : ~delivered[i].late)
  /\ [][(rdPc = "check" /\ ctxCancelled) =>
          (rdPc' \in {"check", "sendDone"} /\ delivered' = delivered)]_vars
  /\ [][rdPc = "call" => (rdPc' = "call" \/ Len(conts') = Len(conts) + 1)]_vars

\* The first chunk was processed; the second one, whose scan completed
\* after the cancellation, was not delivered and the reader has stopped.
C19_Witness ==
  /\ ctxCancelled
  /\ inHandLate
  /\ rdPc \in {"sendDone", "exited"}
  /\ scanned = 2
  /\ Len(delivered) = 1
  /\ conts = <<TRUE>>

\* C20: when the child process fails to start, the chunk processor is
\* never invoked and Run returns, without waiting for anything outside the
\* program, a non-nil error.
C20_StartFailure ==
  /\ [](cmdPc = "startFailed" => delivered = <<>>)
  /\ []((cmdPc = "startFailed" /\ prRunPc = "returned") => prRet # ErrNil)
  /\ (cmdPc = "startFailed" ~> prRunPc = "returned")

\* Run has returned after a failed Start.
C20_Witness ==
  /\ cmdPc = "startFailed"
  /\ prRunPc = "returned"
  /\ prRet = ErrNotStarted
  /\ rdPc = "exited"
  /\ delivered = <<>>

\* An address lies inside a network: between its first and its last address.
LexLeq(a, b) ==
  \/ a = b
  \/ \E j \in 1..Len(a) : (\A i \in 1..(j - 1) : a[i] = b[i]) /\ a[j] < b[j]

InRange(ip, n) == Len(ip) = Len(n.ip) /\ LexLeq(n.ip, ip) /\ LexLeq(ip, LastOf(n))

\* The address lies inside a range of the reserved registry of its family.
Reserved(a) ==
  LET nets == IF a.fam = 4 THEN NotScannableNetsIPV4 ELSE NotScannableNetsIPV6
  IN \E k \in 1..Len(nets) : InRange(a.groups, nets[k])

\* C21: for every literal IPv4 or IPv6 address, IsScannable is false if the
\* address lies inside a range of the reserved registry of its family (its
\* first and last address included) and true if it lies outside all of them.
C21_ReservedLiterals ==
  (tgOp = "IsScannable" /\ tgIn.target.kind = "ip") =>
    tgOut.ok = ~Reserved(tgIn.target.addr)

\* A resolved address is outside the registries: it parses and lies in no
\* reserved range of its family.
Outside(a) == a.parsable /\ ~Reserved(a)

\* The list the forward lookup of IsScannable returns for the input.
Looked == LookupHost(Asset(tgIn.target), tgIn.target.addr, tgIn.answers)

\* C22: for a hostname or a URL whose forward lookup (of the URL's hostname)
\* returns a non-empty list, IsScannable is true iff every address of the
\* list parses and lies outside the reserved registries.
C22_ResolvedNames ==
  (/\ tgOp = "IsScannable"
   /\ tgIn.target.kind \in {"name", "url"}
   /\ Looked # <<>>) =>
    tgOut.ok = (\A i \in 1..Len(Looked) : Outside(Looked[i]))

\* C23 (as stated): when the forward lookup fails or yields no address,
\* IsScannable returns false.
C23_FailsClosed ==
  (/\ tgOp = "IsScannable"
   /\ tgIn.target.kind \notin {"ip", "cidr"}
   /\ Looked = <<>>) => tgOut.ok = FALSE

\* C23 (amended): when the forward lookup fails or yields no address,
\* IsScannable returns true; it has no error result, so none is surfaced.
C23_FailsOpen ==
  (/\ tgOp = "IsScannable"
   /\ tgIn.target.kind \notin {"ip", "cidr"}
   /\ Looked = <<>>) => (tgOut = [ok |-> TRUE])

\* C23 witness: a URL whose hostname the resolver does not know, although
\* it knows another name, was declared scannable.
C23_Witness ==
  /\ tgOp = "IsScannable"
  /\ tgIn.target.kind = "url"
  /\ Looked = <<>>
  /\ DOMAIN tgIn.answers # {}
  /\ tgOut.ok

\* C24: a container image reference and a cloud account identifier are
\* scannable whatever the resolver knows, and so is a hostname that does
\* not resolve.
C24_NonNetworkTargets ==
  (/\ tgOp = "IsScannable"
   /\ \/ tgIn.target.kind \in {"image", "arn"}
      \/ tgIn.target.kind = "name" /\ tgIn.target.value \notin DOMAIN tgIn.answers) =>
    tgOut.ok = TRUE

\* C24 witness: an image reference was declared scannable under a resolver
\* that knows every resolvable name.
C24_Witness ==
  /\ tgOp = "IsScannable"
  /\ tgIn.target.kind = "image"
  /\ DOMAIN tgIn.answers = ResolvableNames
  /\ tgOut.ok

\* A call of the method is made in the step.
HostnameCall == tgCalls' = tgCalls + 1 /\ tgOp' = "IsHostname"
DomainNameCall == tgCalls' = tgCalls + 1 /\ tgOp' = "IsDomainName"

\* C25: once IsHostname (IsDomainName) has computed a result for the
\* Target, a further call returns that result and queries no resolver; and
\* a Target whose memo field is set returns the memoized value without a
\* query.
C25_Memoized ==
  [][/\ (HostnameCall /\ target.hostname = MemoUnset /\ computedHostname # MemoUnset) =>
          (lookups' = lookups /\ tgOut'.err = "nil"
             /\ tgOut'.ret = Deref(computedHostname))
     /\ (DomainNameCall /\ target.domainName = MemoUnset /\ computedDomainName # MemoUnset) =>
          (lookups' = lookups /\ tgOut'.err = "nil"
             /\ tgOut'.ret = Deref(computedDomainName))
     /\ (HostnameCall /\ target.hostname # MemoUnset) =>
          (lookups' = lookups /\ tgOut'.err = "nil"
             /\ tgOut'.ret = Deref(target.hostname))
     /\ (DomainNameCall /\ target.domainName # MemoUnset) =>
          (lookups' = lookups /\ tgOut'.err = "nil"
             /\ tgOut'.ret = Deref(target.domainName))]_vars

\* The last call was an IsHostname that queried the resolver and got an
\* error or "no such host"; an IsDomainName whose SOA lookup ended in an
\* error.
HostnameFailed ==
  tgOp = "IsHostname" /\ tgOut.queried # <<>> /\ tgIn.lookup.err # "nil"
DomainNameFailed ==
  tgOp = "IsDomainName" /\ tgIn.target.domainName = MemoUnset /\ tgOut.err # "nil"

\* C26: a call of IsHostname or IsDomainName that ended in a lookup error
\* (or in the host-not-found case) leaves the memo field unset, in the
\* method's own Target and in the caller's, and the next call of the
\* method performs the lookup again.
C26_ErrorsNotCached ==
  /\ [](HostnameFailed => (tgOut.memo = MemoUnset /\ target.hostname = MemoUnset))
  /\ [](DomainNameFailed => (tgOut.memo = MemoUnset /\ target.domainName = MemoUnset))
  /\ [][(HostnameFailed /\ HostnameCall) => lookups' = lookups + 1]_vars
  /\ [][(DomainNameFailed /\ DomainNameCall /\ tgIn'.servers # <<>>) =>
          lookups' > lookups]_vars

\* C26 witness: after an IsHostname that met "no such host", a second
\* IsHostname queried the resolver again and found the host.
C26_Witness ==
  /\ tgOp = "IsHostname"
  /\ tgCalls = 2
  /\ lookups = 2
  /\ tgOut.ret
  /\ ~tgIn.target.ip
  /\ computedHostname = MemoTrue

\* The SOA lookup was made, and the servers up to server k answered without
\* an exchange error, server k being the first with the success code.
FirstSuccess(k) ==
  /\ tgOp = "IsDomainName"
  /\ tgIn.target.domainName = MemoUnset
  /\ ~tgIn.target.ip
  /\ k \in 1..Len(tgIn.servers)
  /\ \A j \in 1..k : tgIn.servers[j].err = "nil"
  /\ tgIn.servers[k].rcode = RcodeSuccess
  /\ \A j \in 1..(k - 1) : tgIn.servers[j].rcode # RcodeSuccess

\* C27: the SOA lookup asks the configured resolvers in their listed order
\* and stops at the first successful response: no resolver after it is
\* asked, and the result is true iff that response has an SOA answer record
\* owned by the queried name with a trailing dot.
C27_FirstSuccessDecides ==
  \A k \in 1..MaxServers :
    FirstSuccess(k) =>
      /\ tgOut.queried = [i \in 1..k |-> i]
      /\ tgOut.err = "nil"
      /\ tgOut.ret = (RR(tgIn.target.value \o ".", "SOA") \in tgIn.servers[k].answer)

\* C27 witness: the first of two servers answered successfully without an
\* SOA record of the name; the second, which has one, was not asked, and
\* the result was false.
C27_Witness ==
  /\ FirstSuccess(1)
  /\ Len(tgIn.servers) = 2
  /\ soaHeaderForName(tgIn.servers[2], "example.com.")
  /\ tgOut.queried = <<1>>
  /\ ~tgOut.ret

\* C28: IsDomainName fails with ErrFailedToGetDNSAnswer whenever every
\* configured resolver was tried and none gave a successful response,
\* non-success response codes included.
C28_NoValidAnswer ==
  (/\ tgOp = "IsDomainName"
   /\ tgIn.target.domainName = MemoUnset
   /\ ~tgIn.target.ip
   /\ Len(tgOut.queried) = Len(tgIn.servers)
   /\ \A i \in 1..Len(tgIn.servers) :
        tgIn.servers[i].err # "nil" \/ tgIn.servers[i].rcode # RcodeSuccess) =>
    (tgOut.ret = FALSE /\ tgOut.err = ErrFailedToGetDNSAnswer)

\* C29: when Check.Shutdown is called while RunAndServe waits for the check
\* body, RunAndServe returns, after the state provider and the API have
\* been shut down (that is, after that Shutdown has returned).
C29_ShutdownReleasesRunAndServe ==
  (extPc = "done" /\ extAt = "wait") ~> (mainPc = "done")

\* C30: RestPusher.UpdateState called after RestPusher.Shutdown has returned
\* makes the program panic: the message is neither queued nor delivered,
\* and the caller is not left blocked in the send.
C30_UpdateAfterShutdownPanics ==
  [][(drvPc = "shutdownDone" /\ nCalls' = nCalls + 1) =>
       (/\ panicked'
        /\ ~blocked'
        /\ msgsToSend' = msgsToSend
        /\ attempts' = attempts
        /\ collected' = collected)]_vars

\* C30 witness: Shutdown returned after two messages, all of them
\* attempted, and the UpdateState that followed panicked.
C30_Witness ==
  /\ panicked
  /\ drvPc = "shutdownDone"
  /\ lastCall = Call("UpdateState", 3, ErrNil)
  /\ Len(attempts) = 2

Terminal(m) == m.status \in {StatusFinished, StatusAborted, StatusFailed}

\* C32: in one push-mode RunAndServe the first snapshot handed to the
\* transport is {running, 0} and is there before the check body starts;
\* a snapshot with a terminal status is the last one pushed and has
\* progress 1; and there is one exactly from the terminal transition of
\* executeChecker on, so exactly one when RunAndServe has returned.
C32_OneTerminalSnapshot ==
  /\ pushed # <<>> =>
       (pushed[1].status = StatusRunning /\ pushed[1].progress = 0)
  /\ chkPc # "none" => pushed # <<>>
  /\ \A i \in 1..Len(pushed) :
       Terminal(pushed[i]) => (i = Len(pushed) /\ pushed[i].progress = ProgressOne)
  /\ (\E i \in 1..Len(pushed) : Terminal(pushed[i])) <=> chkPc \in {"return", "done"}
  /\ mainPc = "done" => chkPc = "done"

\* C32 witness: RunAndServe returned after a body that reported twice and
\* was aborted: four snapshots, the last one {aborted, 1}.
C32_Witness ==
  /\ mainPc = "done"
  /\ Len(pushed) = 4
  /\ pushed[2].status = StatusRunning /\ pushed[3].status = StatusRunning
  /\ pushed[4].status = StatusAborted /\ pushed[4].progress = ProgressOne

\* C33: the queue of the RestPusher is bounded: the messages buffered and
\* not yet taken by the sender are never more than the capacity, which is
\* the configured BufferLen, or 10 when that is 0.
C33_QueueBounded ==
  /\ Len(msgsToSend) <= bufCap
  /\ bufCap \in {IF b = 0 THEN 10 ELSE b : b \in UnitBufferLens}
  /\ NewBufferLen(0) = 10

\* C33 witness: a buffer of capacity 2 is full and the producer waits in
\* its blocking send with a third message.
C33_Witness ==
  /\ bufCap = 2
  /\ Len(msgsToSend) = 2
  /\ blocked
  /\ pendMsg # NoMsg

\* C34: a call of RestPusher.UpdateState made before Shutdown returns: a
\* producer stalled by a full buffer is released, under a sender whose
\* delivery attempts terminate.
C34_UpdateStateReturns == blocked ~> ~blocked

\* C34 witness: the producer was stalled twice by a full buffer of one
\* message and has gone on to Shutdown, which has returned.
C34_Witness ==
  /\ bufCap = 1
  /\ backPressure = 2
  /\ ~blocked
  /\ drvPc = "shutdownDone"

\* C35: ProcessCheck.Run eventually returns for every child that exits once
\* its output is consumed, also when the processor has stopped the reading
\* early while the child still writes to its standard output.
C35_RunReturns == (prRunPc = "pipes") ~> (prRunPc = "returned")

\* C36: during a push-mode RunAndServe whose body makes its state calls
\* from its own task before returning, no snapshot is handed to the
\* transport once the transport's Shutdown has begun, so the send on the
\* closed channel never happens; and a termination signal handled while the
\* lifecycle is shutting down only cancels the context: it pushes nothing
\* and leaves the check state as it is.
ShuttingDown == mainPc \in {"stateShutdown", "waitSender", "apiShutdown", "waitListener"}

C36_NoPushAfterShutdown ==
  /\ [][Len(pushed') > Len(pushed) => ~closed /\ ~ShuttingDown]_vars
  /\ [](~panicked)
  /\ [][(ShuttingDown /\ lsnPc = "aborting" /\ lsnPc' # "aborting")
          => /\ ctxCancelled'
             /\ UNCHANGED <<status, progress, errText, pushed, msgsToSend>>]_vars

\* The listener has taken a signal and is about to call Abort while Shutdown
\* has closed the transport's channel, the terminal snapshot handed over.
C36_Witness ==
  /\ closed /\ ShuttingDown
  /\ lsnPc = "aborting"
  /\ ~ctxCancelled
  /\ Len(pushed) >= 2
  /\ Terminal(pushed[Len(pushed)])

\* C37: Check.Shutdown is safe to call at any time relative to RunAndServe:
\* before it, concurrently with it, or after it has returned, the call
\* panics nowhere and returns.
C37_ShutdownSafeAnyTime ==
  /\ [][extPc # "none" /\ extPc # "done" => ~panicked']_vars
  /\ (extPc = "stateShutdown") ~> (extPc = "done")

\* Some address of the network a CIDR text denotes lies inside a range of
\* the reserved registry of its family: the two ranges overlap.
OverlapsReserved(a) ==
  LET net == Net(MaskIP(a.groups, a.bits), a.bits)
      nets == IF a.fam = 4 THEN NotScannableNetsIPV4 ELSE NotScannableNetsIPV6
  IN \E k \in 1..Len(nets) :
       /\ Len(net.ip) = Len(nets[k].ip)
       /\ LexLeq(net.ip, LastOf(nets[k]))
       /\ LexLeq(nets[k].ip, LastOf(net))

\* C38: for a CIDR target IsScannable returns true only if no address of
\* the network lies inside a reserved range; a network that overlaps or
\* contains a reserved range is not scannable even when its base address
\* lies outside all of them.
C38_CIDRWithoutReservedAddress ==
  (tgOp = "IsScannable" /\ tgIn.target.kind = "cidr" /\ tgOut.ok) =>
    ~OverlapsReserved(tgIn.target.addr)

\* C39: the local runner's RunAndServe waits for the check body to return,
\* cancelling the context on the first termination signal and ignoring the
\* later ones; it then runs CleanUp exactly once and emits the result; and
\* the process exits with status zero iff the body returned no error.
C39_LocalRunAndServe ==
  /\ lcCancels <= 1
  /\ lcCleanups + Len(lcResults) > 0 => lcBodyPc = "exited"
  /\ lcPc = "exited" =>
       /\ lcCleanups = 1
       /\ lcResults = <<lcErr>>
       /\ lcErr = (IF lcBodyWaits THEN ErrCanceled ELSE lcBodyRet)
       /\ (lcExit = 0) <=> (lcErr = ErrNil)

====
